---------------------------- MODULE Spec2Model ----------------------------
(***************************************************************************)
(* A model of two parts of the transportation analysis repository:         *)
(*                                                                         *)
(*   - src/src/hcm_engine: the HCM signalized-intersection pipeline        *)
(*     (input construction, saturation flow, capacity, v/c ratio, control  *)
(*     delay, LOS classification), specification Spec;                     *)
(*   - src/src/scenario_engine: changesets applied to nested objects       *)
(*     (validate_changes, apply_changes, compute_diff), specification      *)
(*     SpecScen.                                                           *)
(*                                                                         *)
(* Numbers.  The code computes in binary floating point and rounds with    *)
(* Python's round().  The model computes the same expressions in exact     *)
(* rational arithmetic on scaled integers and rounds half-to-even, which   *)
(* is what round() does on the exact value.  Quantities are held as        *)
(* integers in these units:                                                *)
(*     volume                 vehicles / hour                              *)
(*     cycle_length, green    tenths of a second                           *)
(*     lane_width             tenths of a foot                             *)
(*     percentages            percent                                      *)
(*     analysis_period_hours  quarter hours                                *)
(*     upstream_filtering     tenths                                       *)
(*     flows and capacity     tenths of a vehicle / hour  (1 decimal)      *)
(*     adjustment factors     1/10000                     (4 decimals)     *)
(*     vc_ratio               1/10000                     (4 decimals)     *)
(*     delays                 hundredths of a second      (2 decimals)     *)
(* Products that exceed 32-bit integers are carried as naturals in         *)
(* base 10000 (least significant digit first).                             *)
(* Where the exact value lies half way between two roundings, the float    *)
(* the code computes lies a rounding error above or below it and round()   *)
(* follows the float; the arguments offered to the functions are chosen    *)
(* so that the results of the model are those the code returns on them.    *)
(* Single calls of the functions are specification SpecUnit.               *)
(***************************************************************************)
EXTENDS Integers, Sequences, FiniteSets, TLC

VARIABLES
    \* ---- hcm_engine ----
    req,        \* the constructor arguments of the LaneGroupInput being built / analysed
    pc,         \* position of the call: see PcValues
    res,        \* the values computed so far by compute_lane_group_results
    err,        \* the error raised, "" when none
    prev,       \* the first completed call and its outcome, or NoCall
    \* ---- single function calls ----
    ucall,      \* the function called and its arguments, or NoCall
    uret,       \* what the call returned or raised
    \* ---- scenario_engine ----
    sobj,       \* the caller's object, passed to apply_changes
    sorig,      \* that object as it was when the call was made
    scs,        \* the changes of the changeset passed
    sval,       \* the validate flag passed
    sdiff,      \* [modified] when the changes are compute_diff(sobj, modified), or NoCall
    sloc,       \* the locals of apply_changes in its loop, or NoLocals
    sres,       \* the ChangeResult returned, or the exception raised
    spc         \* position of the call: see ScenPcValues

hcmVars  == <<req, pc, res, err, prev>>
unitVars == <<ucall, uret>>
scenVars == <<sobj, sorig, scs, sval, sdiff, sloc, sres, spc>>
vars     == <<req, pc, res, err, prev, ucall, uret,
             sobj, sorig, scs, sval, sdiff, sloc, sres, spc>>

-----------------------------------------------------------------------------
(* Integer helpers                                                         *)

Min(a, b) == IF a <= b THEN a ELSE b

\* round(n / d) for integers n >= 0, d > 0 with 2*n within the integers:
\* Python's round(), half to even.
RoundDiv(n, d) ==
    LET q == n \div d
        r == n % d
    IN  IF 2 * r < d THEN q
        ELSE IF 2 * r > d THEN q + 1
        ELSE IF q % 2 = 0 THEN q ELSE q + 1

-----------------------------------------------------------------------------
(* Naturals in base 10000, least significant digit first, <<>> is zero.    *)

RECURSIVE BNFromInt(_)
BNFromInt(n) ==
    IF n = 0 THEN <<>> ELSE <<n % 10000>> \o BNFromInt(n \div 10000)

RECURSIVE BNToInt(_)
BNToInt(a) == IF a = <<>> THEN 0 ELSE Head(a) + 10000 * BNToInt(Tail(a))

RECURSIVE BNTrim(_)
\* without the zero digits at the most significant end
BNTrim(a) ==
    IF a = <<>> THEN <<>>
    ELSE IF a[Len(a)] = 0 THEN BNTrim(SubSeq(a, 1, Len(a) - 1))
    ELSE a

RECURSIVE BNAddC(_, _, _)
BNAddC(a, b, c) ==
    IF a = <<>> /\ b = <<>> THEN (IF c = 0 THEN <<>> ELSE <<c>>)
    ELSE LET x == IF a = <<>> THEN 0 ELSE Head(a)
             y == IF b = <<>> THEN 0 ELSE Head(b)
             s == x + y + c
         IN  <<s % 10000>> \o BNAddC(IF a = <<>> THEN <<>> ELSE Tail(a),
                                     IF b = <<>> THEN <<>> ELSE Tail(b),
                                     s \div 10000)

BNAdd(a, b) == BNAddC(a, b, 0)

\* a * k for a digit sequence a and an integer 0 <= k <= 200000
RECURSIVE BNMulSmallC(_, _, _)
BNMulSmallC(a, k, c) ==
    IF a = <<>> THEN BNFromInt(c)
    ELSE LET s == Head(a) * k + c
         IN  <<s % 10000>> \o BNMulSmallC(Tail(a), k, s \div 10000)

BNMulSmall(a, k) == IF k = 0 THEN <<>> ELSE BNMulSmallC(a, k, 0)

\* <<remainder, q_1, ..., q_i>> of (r * 10000^i + a[1..i]) divided by k,
\* for an integer 0 < k <= 200000
RECURSIVE BNDivDigits(_, _, _, _)
BNDivDigits(a, k, i, r) ==
    IF i = 0 THEN <<r>>
    ELSE LET cur == r * 10000 + a[i]
         IN  BNDivDigits(a, k, i - 1, cur % k) \o <<cur \div k>>

\* [q |-> a \div k, r |-> a % k]
BNDivSmall(a, k) ==
    LET Split(d) == [q |-> BNTrim(Tail(d)), r |-> Head(d)]
    IN  Split(BNDivDigits(a, k, Len(a), 0))

\* -1, 0, 1 as a < b, a = b, a > b
RECURSIVE BNCmpFrom(_, _, _)
BNCmpFrom(a, b, i) ==
    IF i = 0 THEN 0
    ELSE IF a[i] < b[i] THEN -1
    ELSE IF a[i] > b[i] THEN 1
    ELSE BNCmpFrom(a, b, i - 1)

BNCmp(a, b) ==
    IF Len(a) < Len(b) THEN -1
    ELSE IF Len(a) > Len(b) THEN 1
    ELSE BNCmpFrom(a, b, Len(a))

\* the product of two integers 0 <= a, b < 2^31 as a digit sequence
BNOfProduct(a, b) ==
    LET a0 == a % 10000
        a1 == (a \div 10000) % 10000
        a2 == a \div 100000000
        b0 == b % 10000
        b1 == (b \div 10000) % 10000
        b2 == b \div 100000000
        c0 == a0 * b0
        c1 == a0 * b1 + a1 * b0 + c0 \div 10000
        c2 == a0 * b2 + a1 * b1 + a2 * b0 + c1 \div 10000
        c3 == a1 * b2 + a2 * b1 + c2 \div 10000
        c4 == a2 * b2 + c3 \div 10000
    IN  BNTrim(<<c0 % 10000, c1 % 10000, c2 % 10000, c3 % 10000,
                 c4 % 10000, c4 \div 10000>>)

RECURSIVE BNMulAll(_, _)
\* a times every integer of the sequence ks (each 0 <= k <= 200000)
BNMulAll(a, ks) ==
    IF ks = <<>> THEN a ELSE BNMulAll(BNMulSmall(a, Head(ks)), Tail(ks))

RECURSIVE BNDivAll(_, _)
\* [q |-> a \div (product of ks), exact |-> the product divides a]
BNDivAll(a, ks) ==
    IF ks = <<>> THEN [q |-> a, exact |-> TRUE]
    ELSE LET Rest(d) == [BNDivAll(d.q, Tail(ks)) EXCEPT !.exact = @ /\ d.r = 0]
         IN  Rest(BNDivSmall(a, Head(ks)))

\* round(num / (product of dens)), half to even, for a digit sequence num and
\* integers 0 < den <= 200000:  m = floor((2 num + Q) / (2 Q)) is the rounding
\* unless num/Q is exactly m - 1/2, which rounds to the even one of m - 1 and m.
BNRound(num, dens) ==
    LET HalfEven(m, tie) == IF tie /\ m % 2 = 1 THEN m - 1 ELSE m
        Rounded(d)       == HalfEven(BNToInt(d.q), d.exact)
    IN  Rounded(BNDivAll(BNAdd(BNMulSmall(num, 2), BNMulAll(<<1>>, dens)),
                         <<2>> \o dens))

\* a number v = q + r/d, 0 <= r < d, as <<q, r>>; times an integer f with f*d < 2^31
MixedOf(n, d)     == <<n \div d, n % d>>
MixedTimes(v, f, d) == <<f * v[1] + (f * v[2]) \div d, (f * v[2]) % d>>
MixedRound(v, d) ==
    IF 2 * v[2] < d THEN v[1]
    ELSE IF 2 * v[2] > d THEN v[1] + 1
    ELSE IF v[1] % 2 = 0 THEN v[1] ELSE v[1] + 1

-----------------------------------------------------------------------------
(* hcm_engine/models.py: the enumerations and the construction constraints  *)

MovementTypes == {"through", "left", "right", "through_right",
                  "through_left", "left_right", "all"}
ControlTypes  == {"pretimed", "actuated_uncoordinated", "actuated_coordinated"}
LosGrades     == <<"A", "B", "C", "D", "E", "F">>

MinLanes == 1
MaxLanes == 8
\* le=300 seconds, in tenths of a second
MaxCycleLength == 3000
\* gt=8.0 and le=24.0 feet, in tenths of a foot
MinLaneWidth == 80
MaxLaneWidth == 240
MaxPct == 100
MaxGrade == 10
\* le=1 hour, in quarter hours
MaxAnalysisPeriod == 4
\* le=1, in tenths
MaxFiltering == 10

\* SignalTimingInput: the Field constraints of cycle_length and effective_green
\* and the field validator green_must_be_less_than_cycle.  The validator reads
\* cycle_length from the fields validated so far: when cycle_length itself was
\* rejected it is absent and the comparison is skipped.
CycleLengthOk(r) == r.cycle_length > 0 /\ r.cycle_length <= MaxCycleLength

\* the validator without its comparison
C1_Mutant_green_validator(r) == TRUE

green_must_be_less_than_cycle(r) ==
    ~(CycleLengthOk(r) /\ r.effective_green > r.cycle_length)

SignalTimingErrors(r) ==
    (IF CycleLengthOk(r) THEN {} ELSE {"cycle_length"})
    \cup (IF r.effective_green > 0 /\ green_must_be_less_than_cycle(r)
          THEN {} ELSE {"effective_green"})
    \cup (IF r.control_type \in ControlTypes THEN {} ELSE {"control_type"})

VolumeOk(r)   == r.volume >= 0
NumLanesOk(r) == r.num_lanes >= MinLanes /\ r.num_lanes <= MaxLanes

\* LaneGroupInput: the names of the fields whose constraints are violated.
\* Construction succeeds exactly when there is none.
LaneGroupInputErrors(r) ==
    (IF VolumeOk(r) THEN {} ELSE {"volume"})
    \cup (IF NumLanesOk(r) THEN {} ELSE {"num_lanes"})
    \cup (IF r.movement_type \in MovementTypes THEN {} ELSE {"movement_type"})
    \cup (IF r.base_saturation_flow > 0 THEN {} ELSE {"base_saturation_flow"})
    \cup (IF r.lane_width > MinLaneWidth /\ r.lane_width <= MaxLaneWidth
          THEN {} ELSE {"lane_width"})
    \cup (IF r.heavy_vehicle_pct >= 0 /\ r.heavy_vehicle_pct <= MaxPct
          THEN {} ELSE {"heavy_vehicle_pct"})
    \cup (IF r.grade_pct >= -MaxGrade /\ r.grade_pct <= MaxGrade
          THEN {} ELSE {"grade_pct"})
    \cup (IF r.parking_maneuvers_per_hour >= 0 THEN {} ELSE {"parking_maneuvers_per_hour"})
    \cup (IF r.bus_stops_per_hour >= 0 THEN {} ELSE {"bus_stops_per_hour"})
    \cup (IF r.area_type \in {"cbd", "other"} THEN {} ELSE {"area_type"})
    \cup (IF r.left_turn_pct >= 0 /\ r.left_turn_pct <= MaxPct
          THEN {} ELSE {"left_turn_pct"})
    \cup (IF r.right_turn_pct >= 0 /\ r.right_turn_pct <= MaxPct
          THEN {} ELSE {"right_turn_pct"})
    \cup (IF SignalTimingErrors(r) = {} THEN {} ELSE {"signal_timing"})
    \cup (IF r.analysis_period_hours > 0 /\ r.analysis_period_hours <= MaxAnalysisPeriod
          THEN {} ELSE {"analysis_period_hours"})
    \cup (IF r.upstream_filtering_factor >= 0 /\ r.upstream_filtering_factor <= MaxFiltering
          THEN {} ELSE {"upstream_filtering_factor"})

-----------------------------------------------------------------------------
(* hcm_engine/saturation_flow.py.  A factor is a fraction <<num, den>>.      *)

\* fw = 1 + (W - 12)/30 = (180 + W10)/300, bounded to [0.87, 1.07]
compute_lane_width_factor(lane_width) ==
    LET n == 180 + lane_width
    IN  IF n * 100 < 87 * 300 THEN <<87, 100>>
        ELSE IF n * 100 > 107 * 300 THEN <<107, 100>>
        ELSE <<n, 300>>

\* fHV = 100 / (100 + %HV * (ET - 1)), ET = 2
compute_heavy_vehicle_factor(heavy_vehicle_pct) ==
    <<100, 100 + heavy_vehicle_pct * (2 - 1)>>

\* fg = 1 - %G/200
compute_grade_factor(grade_pct) == <<200 - grade_pct, 200>>

\* fp = (N - 0.1 - 18*Nm/3600)/N = (200N - 20 - Nm)/(200N), bounded to [0.05, 1]
compute_parking_factor(parking_adjacent, parking_maneuvers_per_hour, num_lanes) ==
    IF ~parking_adjacent \/ parking_maneuvers_per_hour = 0 THEN <<1, 1>>
    ELSE LET n == 200 * num_lanes - 20 - parking_maneuvers_per_hour
             d == 200 * num_lanes
         IN  IF n * 20 < d THEN <<1, 20>>
             ELSE IF n > d THEN <<1, 1>>
             ELSE <<n, d>>

\* fbb = (N - 14.4*Nb/3600)/N = (250N - Nb)/(250N), bounded to [0.05, 1]
compute_bus_blockage_factor(bus_stops_per_hour, num_lanes) ==
    IF bus_stops_per_hour = 0 THEN <<1, 1>>
    ELSE LET n == 250 * num_lanes - bus_stops_per_hour
             d == 250 * num_lanes
         IN  IF n * 20 < d THEN <<1, 20>>
             ELSE IF n > d THEN <<1, 1>>
             ELSE <<n, d>>

compute_area_type_factor(area_type) ==
    IF area_type = "cbd" THEN <<90, 100>> ELSE <<1, 1>>

\* the shared-lane formula for the exclusive left-turn lane too
C22_Mutant_compute_left_turn_factor(movement_type, left_turn_pct) ==
    IF movement_type \in {"left", "through_left", "all"}
    THEN <<2000, 2000 + left_turn_pct>>
    ELSE <<1, 1>>

\* exclusive left 0.95; shared 1/(1 + 0.05*PLT) = 2000/(2000 + pct); else 1
compute_left_turn_factor(movement_type, left_turn_pct) ==
    IF movement_type = "left" THEN <<95, 100>>
    ELSE IF movement_type \in {"through_left", "all"}
         THEN <<2000, 2000 + left_turn_pct>>
    ELSE <<1, 1>>

\* exclusive right 0.85; shared max(0.05, 1 - 0.15*PRT) = (2000 - 3 pct)/2000; else 1
compute_right_turn_factor(movement_type, right_turn_pct) ==
    IF movement_type = "right" THEN <<85, 100>>
    ELSE IF movement_type \in {"through_right", "left_right", "all"}
         THEN LET n == 2000 - 3 * right_turn_pct
              IN  IF n * 20 < 2000 THEN <<1, 20>> ELSE <<n, 2000>>
    ELSE <<1, 1>>

\* round(f, 4)
Factor4(f) == RoundDiv(f[1] * 10000, f[2])

\* the i-th components of a sequence of fractions
Components(fs, i) == [ j \in 1..Len(fs) |-> fs[j][i] ]

\* the SaturationFlowResult of the factors fs = <<f_w, f_hv, f_g, f_p, f_bb,
\* f_a, f_lt, f_rt>>:  s_adjusted = s0 * f_w * ... * f_rt, round(.., 1), and
\* s_total = s_adjusted * num_lanes of the unrounded s_adjusted, round(.., 1)
SaturationFlowResult(r, fs) ==
    LET Flows(num, dens) ==
          [ base_saturation_flow     |-> r.base_saturation_flow,
            adjusted_saturation_flow |-> BNRound(BNMulSmall(num, 10), dens),
            total_saturation_flow    |->
                BNRound(BNMulSmall(num, 10 * r.num_lanes), dens) ]
    IN  Flows(BNMulAll(BNFromInt(r.base_saturation_flow), Components(fs, 1)),
              Components(fs, 2))
        @@ [ f_w  |-> Factor4(fs[1]), f_hv |-> Factor4(fs[2]),
             f_g  |-> Factor4(fs[3]), f_p  |-> Factor4(fs[4]),
             f_bb |-> Factor4(fs[5]), f_a  |-> Factor4(fs[6]),
             f_lt |-> Factor4(fs[7]), f_rt |-> Factor4(fs[8]) ]

compute_saturation_flow(r) ==
    SaturationFlowResult(r,
        << compute_lane_width_factor(r.lane_width),
           compute_heavy_vehicle_factor(r.heavy_vehicle_pct),
           compute_grade_factor(r.grade_pct),
           compute_parking_factor(r.parking_adjacent,
                                  r.parking_maneuvers_per_hour, r.num_lanes),
           compute_bus_blockage_factor(r.bus_stops_per_hour, r.num_lanes),
           compute_area_type_factor(r.area_type),
           compute_left_turn_factor(r.movement_type, r.left_turn_pct),
           compute_right_turn_factor(r.movement_type, r.right_turn_pct) >>)

-----------------------------------------------------------------------------
(* hcm_engine/capacity.py.  A call returns [ok |-> TRUE, v |-> value] or     *)
(* [ok |-> FALSE, e |-> message of the ValueError].                          *)

Ok(v)    == [ok |-> TRUE, v |-> v]
Raise(e) == [ok |-> FALSE, e |-> e]

\* a capacity that falls as the green grows: s * (1 - g/(2C))
C6_Mutant_compute_capacity(saturation_flow, effective_green, cycle_length) ==
    IF cycle_length <= 0 \/ effective_green < 0 \/ effective_green > cycle_length
    THEN Raise("green and cycle out of range")
    ELSE Ok(RoundDiv(saturation_flow * (2 * cycle_length - effective_green),
                     2 * cycle_length))

\* a capacity from the green extended by 4 s
C15_Mutant_compute_capacity(saturation_flow, effective_green, cycle_length) ==
    IF cycle_length <= 0 THEN Raise("cycle_length must be positive")
    ELSE IF effective_green < 0 THEN Raise("effective_green cannot be negative")
    ELSE IF effective_green > cycle_length
         THEN Raise("effective_green cannot exceed cycle_length")
    ELSE IF saturation_flow < 0 THEN Raise("saturation_flow cannot be negative")
    ELSE Ok(RoundDiv(saturation_flow * (effective_green + 40), cycle_length))

\* the saturation flow checked before the timing
C17_Mutant_compute_capacity(saturation_flow, effective_green, cycle_length) ==
    IF saturation_flow < 0 THEN Raise("saturation_flow cannot be negative")
    ELSE IF cycle_length <= 0 THEN Raise("cycle_length must be positive")
    ELSE IF effective_green < 0 THEN Raise("effective_green cannot be negative")
    ELSE IF effective_green > cycle_length
         THEN Raise("effective_green cannot exceed cycle_length")
    ELSE Ok(RoundDiv(saturation_flow * effective_green, cycle_length))

\* c = s * (g/C), round(capacity, 1)
compute_capacity(saturation_flow, effective_green, cycle_length) ==
    IF cycle_length <= 0 THEN Raise("cycle_length must be positive")
    ELSE IF effective_green < 0 THEN Raise("effective_green cannot be negative")
    ELSE IF effective_green > cycle_length
         THEN Raise("effective_green cannot exceed cycle_length")
    ELSE IF saturation_flow < 0 THEN Raise("saturation_flow cannot be negative")
    ELSE Ok(RoundDiv(saturation_flow * effective_green, cycle_length))

\* a ratio that falls as the volume grows
C5_Mutant_compute_vc_ratio(volume, capacity) ==
    IF capacity <= 0 THEN Raise("capacity must be positive")
    ELSE IF volume < 0 THEN Raise("volume cannot be negative")
    ELSE Ok(RoundDiv(100000 * 100, capacity + volume))

\* a ratio clamped at 1.0
C18_Mutant_compute_vc_ratio(volume, capacity) ==
    IF capacity <= 0 THEN Raise("capacity must be positive")
    ELSE IF volume < 0 THEN Raise("volume cannot be negative")
    ELSE Ok(Min(10000, RoundDiv(volume * 100000, capacity)))

\* X = v/c, round(vc_ratio, 4); capacity is in tenths, so X4 = v * 100000 / c10
compute_vc_ratio(volume, capacity) ==
    IF capacity <= 0 THEN Raise("capacity must be positive")
    ELSE IF volume < 0 THEN Raise("volume cannot be negative")
    ELSE Ok(RoundDiv(volume * 100000, capacity))

-----------------------------------------------------------------------------
(* hcm_engine/delay.py                                                       *)

\* the floor of the uniform-delay denominator, 0.001, in 1/10000
DenominatorFloor == 10

\* d1 = 0.5*C*(1 - g/C)^2 / (1 - min(1, X)*g/C), round(d1, 2).
\* With C, g in tenths of a second and X in 1/10000:
\*   denominator = D / (10000*C),  D = 10000*C - min(10000, X4)*g,
\*   denominator <= 0.001  iff  D <= 10*C,
\*   100*d1 = 50000*(C - g)^2 / D.
\* the divisor taken with X itself, not min(1, X)
C13_Mutant_UniformDelayDivisor(effective_green, cycle_length, vc_ratio) ==
    LET Floored(D) == IF D <= DenominatorFloor * cycle_length
                      THEN DenominatorFloor * cycle_length
                      ELSE D
    IN  Floored(10000 * cycle_length - vc_ratio * effective_green)

\* a floor of 0.01 in place of 0.001
C14_Mutant_UniformDelayDivisor(effective_green, cycle_length, vc_ratio) ==
    LET Floored(D) == IF D <= 100 * cycle_length
                      THEN 100 * cycle_length
                      ELSE D
        X_effective == Min(10000, vc_ratio)
    IN  Floored(10000 * cycle_length - X_effective * effective_green)

UniformDelayDivisor(effective_green, cycle_length, vc_ratio) ==
    LET Floored(D) == IF D <= DenominatorFloor * cycle_length
                      THEN DenominatorFloor * cycle_length
                      ELSE D
        X_effective == Min(10000, vc_ratio)
    IN  Floored(10000 * cycle_length - X_effective * effective_green)

\* round(50000 * N / D), 50000 = 10 * 10 * 10 * 10 * 5
UniformDelayQuotient(N, D) ==
    MixedRound(
        MixedTimes(MixedTimes(MixedTimes(MixedTimes(MixedTimes(
            MixedOf(N, D), 10, D), 10, D), 10, D), 10, D), 5, D), D)

\* a uniform delay that leaves the cycle length to the caller's validation
C19_Mutant_compute_uniform_delay(effective_green, cycle_length, vc_ratio) ==
    IF cycle_length <= 0 THEN Ok(0)
    ELSE Ok(UniformDelayQuotient(
                (cycle_length - effective_green) * (cycle_length - effective_green),
                UniformDelayDivisor(effective_green, cycle_length, vc_ratio)))

compute_uniform_delay(effective_green, cycle_length, vc_ratio) ==
    IF cycle_length <= 0 THEN Raise("cycle_length must be positive")
    ELSE Ok(UniformDelayQuotient(
                (cycle_length - effective_green) * (cycle_length - effective_green),
                UniformDelayDivisor(effective_green, cycle_length, vc_ratio)))

\* a delay factor that depends on the calls made before
C7_Mutant_delay_factor(control_type) ==
    IF "between" \in DOMAIN prev THEN 9 ELSE 10

\* k, in 1/20: 0.45 for actuated coordinated, else 0.50
get_incremental_delay_factor(control_type) ==
    IF control_type = "actuated_coordinated" THEN 9 ELSE 10

\* d2 = 900*T*[(X - 1) + sqrt((X - 1)^2 + 8*k*I*X/(c*T))], floored at 0,
\* round(d2, 2).  With T = Tq/4, k = kk/20, I = Ii/10, c = c10/10 and
\* u = 9*Tq*(X4 - 10000):
\*   4 * 100*d2 = u + sqrt(u^2 + V),   V = 1296000*Tq*kk*Ii*X4 / c10.
\* For P = 4n + 2:  100*d2 < n + 1/2  iff  P - u > 0 and P*(P - 2u) > V, and
\* 100*d2 = n + 1/2 iff P - u >= 0 and P*(P - 2u) = V.
\* IncrementalV is [q |-> floor(V), r |-> the remainder of the division by c10].
IncrementalV(X4, c10, Tq, kk, Ii) ==
    BNDivSmall(BNMulAll(BNFromInt(X4), <<1296, 1000, Tq * kk * Ii>>), c10)

\* the sign of 100*d2 - (n + 1/2)
IncrementalCmp(V, X4, Tq, n) ==
    LET P == 4 * n + 2
        u == 9 * Tq * (X4 - 10000)
    IN  IF P - u <= 0 \/ P - 2 * u < 0 THEN 1
        ELSE LET Sign(c) == IF c > 0 THEN -1
                            ELSE IF c = 0 /\ V.r = 0 THEN 0
                            ELSE 1
             IN  Sign(BNCmp(BNOfProduct(P, P - 2 * u), V.q))

\* round() takes 100*d2 to n: n is the least with 100*d2 < n + 1/2, or a tie and n even
IncrementalRoundsTo(V, X4, Tq, n) ==
    LET Here(c) == c < 0 \/ (c = 0 /\ n % 2 = 0)
    IN  Here(IncrementalCmp(V, X4, Tq, n))

RECURSIVE IncrementalUpper(_, _, _, _)
IncrementalUpper(V, X4, Tq, h) ==
    IF IncrementalRoundsTo(V, X4, Tq, h) THEN h
    ELSE IncrementalUpper(V, X4, Tq, 2 * h + 1)

RECURSIVE IncrementalBisect(_, _, _, _, _)
IncrementalBisect(V, X4, Tq, lo, hi) ==
    IF lo = hi THEN hi
    ELSE LET mid == (lo + hi) \div 2
         IN  IF IncrementalRoundsTo(V, X4, Tq, mid)
             THEN IncrementalBisect(V, X4, Tq, lo, mid)
             ELSE IncrementalBisect(V, X4, Tq, mid + 1, hi)

compute_incremental_delay(vc_ratio, capacity, analysis_period_hours, control_type, upstream_filtering_factor) ==
    IF capacity <= 0 THEN Raise("capacity must be positive")
    ELSE IF analysis_period_hours <= 0
         THEN Raise("analysis_period_hours must be positive")
    ELSE LET k == get_incremental_delay_factor(control_type)
             \* max(0.0, d2): the search starts at 0
             Search(V) ==
                 IncrementalBisect(V, vc_ratio, analysis_period_hours, 0,
                     IncrementalUpper(V, vc_ratio, analysis_period_hours, 0))
         IN  Ok(Search(IncrementalV(vc_ratio, capacity, analysis_period_hours,
                                    k, upstream_filtering_factor)))

\* a total that takes the incremental delay off the uniform delay
C11_Mutant_compute_control_delay(effective_green, cycle_length, vc_ratio, capacity, analysis_period_hours, control_type, upstream_filtering_factor) ==
    LET Sum(d1, d2) ==
            IF ~d1.ok THEN d1
            ELSE IF ~d2.ok THEN d2
            ELSE Ok(<<d1.v, d2.v, d1.v - d2.v>>)
    IN  Sum(compute_uniform_delay(effective_green, cycle_length, vc_ratio),
            compute_incremental_delay(vc_ratio, capacity, analysis_period_hours,
                                      control_type, upstream_filtering_factor))

\* a total with a third component d3 (an initial queue delay of d2 again)
C12_Mutant_compute_control_delay(effective_green, cycle_length, vc_ratio, capacity, analysis_period_hours, control_type, upstream_filtering_factor) ==
    LET Sum(d1, d2) ==
            IF ~d1.ok THEN d1
            ELSE IF ~d2.ok THEN d2
            ELSE Ok(<<d1.v, d2.v, d1.v + d2.v + d2.v>>)
    IN  Sum(compute_uniform_delay(effective_green, cycle_length, vc_ratio),
            compute_incremental_delay(vc_ratio, capacity, analysis_period_hours,
                                      control_type, upstream_filtering_factor))

\* (d1, d2, round(d1 + d2, 2)); the first failing call raises
compute_control_delay(effective_green, cycle_length, vc_ratio, capacity, analysis_period_hours, control_type, upstream_filtering_factor) ==
    LET Sum(d1, d2) ==
            IF ~d1.ok THEN d1
            ELSE IF ~d2.ok THEN d2
            ELSE Ok(<<d1.v, d2.v, RoundDiv(d1.v + d2.v, 1)>>)
    IN  Sum(compute_uniform_delay(effective_green, cycle_length, vc_ratio),
            compute_incremental_delay(vc_ratio, capacity, analysis_period_hours,
                                      control_type, upstream_filtering_factor))

-----------------------------------------------------------------------------
(* hcm_engine/los.py: thresholds in hundredths of a second                   *)

LosThresholdA == 1000
LosThresholdB == 2000
LosThresholdC == 3500
LosThresholdD == 5500
LosThresholdE == 8000

\* the chain with exclusive upper bounds
C4_Mutant_classify_los(control_delay) ==
    IF control_delay < 0 THEN Raise("control_delay cannot be negative")
    ELSE IF control_delay < LosThresholdA THEN Ok("A")
    ELSE IF control_delay < LosThresholdB THEN Ok("B")
    ELSE IF control_delay < LosThresholdC THEN Ok("C")
    ELSE IF control_delay < LosThresholdD THEN Ok("D")
    ELSE IF control_delay < LosThresholdE THEN Ok("E")
    ELSE Ok("F")

classify_los(control_delay) ==
    IF control_delay < 0 THEN Raise("control_delay cannot be negative")
    ELSE IF control_delay <= LosThresholdA THEN Ok("A")
    ELSE IF control_delay <= LosThresholdB THEN Ok("B")
    ELSE IF control_delay <= LosThresholdC THEN Ok("C")
    ELSE IF control_delay <= LosThresholdD THEN Ok("D")
    ELSE IF control_delay <= LosThresholdE THEN Ok("E")
    ELSE Ok("F")

-----------------------------------------------------------------------------
(* hcm_engine/engine.py                                                      *)

EngineVersion == "HCM6-SIG-0.1.0"

\* the comparison including 1.0
C3_Mutant_IsOversaturated(vc_ratio) == vc_ratio >= 10000

\* is_oversaturated = vc_ratio > 1.0, on the rounded ratio
IsOversaturated(vc_ratio) == vc_ratio > 10000

\* The pipeline on a constructed input r, step by step: the LaneGroupResult,
\* or the first ValueError raised by a step (no partial result is returned).
\* a result that reports the volume served, at most the capacity
C21_Mutant_LaneGroupResult(r, sat_flow_result, capacity, vc_ratio, delay, los) ==
    [ engine_version    |-> EngineVersion,
      volume            |-> IF 10 * r.volume > capacity THEN capacity \div 10 ELSE r.volume,
      num_lanes         |-> r.num_lanes,
      saturation_flow   |-> sat_flow_result,
      capacity          |-> capacity,
      vc_ratio          |-> vc_ratio,
      uniform_delay     |-> delay[1],
      incremental_delay |-> delay[2],
      control_delay     |-> delay[3],
      los               |-> los,
      is_oversaturated  |-> vc_ratio > 10000 ]

LaneGroupResult(r, sat_flow_result, capacity, vc_ratio, delay, los) ==
    [ engine_version    |-> EngineVersion,
      volume            |-> r.volume,
      num_lanes         |-> r.num_lanes,
      saturation_flow   |-> sat_flow_result,
      capacity          |-> capacity,
      vc_ratio          |-> vc_ratio,
      uniform_delay     |-> delay[1],
      incremental_delay |-> delay[2],
      control_delay     |-> delay[3],
      los               |-> los,
      is_oversaturated  |-> IsOversaturated(vc_ratio) ]

StepLos(r, sat_flow_result, capacity, vc_ratio, delay, los) ==
    IF ~los.ok THEN los
    ELSE Ok(LaneGroupResult(r, sat_flow_result, capacity, vc_ratio, delay, los.v))

StepControlDelay(r, sat_flow_result, capacity, vc_ratio, delay) ==
    IF ~delay.ok THEN delay
    ELSE StepLos(r, sat_flow_result, capacity, vc_ratio, delay.v,
                 classify_los(delay.v[3]))

StepVcRatio(r, sat_flow_result, capacity, vc_ratio) ==
    IF ~vc_ratio.ok THEN vc_ratio
    ELSE StepControlDelay(r, sat_flow_result, capacity, vc_ratio.v,
             compute_control_delay(r.effective_green, r.cycle_length,
                                   vc_ratio.v, capacity,
                                   r.analysis_period_hours, r.control_type,
                                   r.upstream_filtering_factor))

StepCapacity(r, sat_flow_result, capacity) ==
    IF ~capacity.ok THEN capacity
    ELSE StepVcRatio(r, sat_flow_result, capacity.v,
                     compute_vc_ratio(r.volume, capacity.v))

StepSaturationFlow(r, sat_flow_result) ==
    StepCapacity(r, sat_flow_result,
                 compute_capacity(sat_flow_result.total_saturation_flow,
                                  r.effective_green, r.cycle_length))

compute_lane_group_results(r) ==
    StepSaturationFlow(r, compute_saturation_flow(r))

-----------------------------------------------------------------------------
(* The requests of the model: constructor arguments of LaneGroupInput.       *)

\* the defaults of LaneGroupInput and SignalTimingInput, on the typical lane
\* group of the tests (volume 800, 90 s cycle, 40 s green)
DefaultRequest ==
    [ volume |-> 800, num_lanes |-> 2, movement_type |-> "through",
      base_saturation_flow |-> 1900, lane_width |-> 120,
      heavy_vehicle_pct |-> 0, grade_pct |-> 0, parking_adjacent |-> FALSE,
      parking_maneuvers_per_hour |-> 0, bus_stops_per_hour |-> 0,
      area_type |-> "other", left_turn_pct |-> 0, right_turn_pct |-> 0,
      cycle_length |-> 900, effective_green |-> 400, control_type |-> "pretimed",
      analysis_period_hours |-> 1, upstream_filtering_factor |-> 10 ]

\* a lane group on which every adjustment factor acts
AdjustedSite ==
    [ movement_type |-> "all", lane_width |-> 105, heavy_vehicle_pct |-> 7,
      grade_pct |-> 3, parking_adjacent |-> TRUE,
      parking_maneuvers_per_hour |-> 20, bus_stops_per_hour |-> 10,
      area_type |-> "cbd", left_turn_pct |-> 30, right_turn_pct |-> 20,
      control_type |-> "actuated_coordinated", analysis_period_hours |-> 2,
      upstream_filtering_factor |-> 5 ]

\* an accepted base saturation flow (gt=0) of 1 pc/h/ln
LowFlowSite == [ base_saturation_flow |-> 1 ]

TypicalSites == { DefaultRequest, AdjustedSite @@ DefaultRequest }

\* volumes: a grid, the volumes around X = 1 of the timings below, one negative
VolumeStep     == 800
MaxVolumeSteps == 3
Volumes == { -100, 0, 845, 15190, 15195 }
           \cup { VolumeStep * i : i \in 1..MaxVolumeSteps }
LowVolumes == { 0, 100 }

LaneCounts == { MinLanes - 1, MinLanes, MaxLanes, MaxLanes + 1 }
Cycles     == { 0, 900, MaxCycleLength, MaxCycleLength + 1 }
Greens     == { 0, 100, 400, 2997, 2999, 3000 }

Requests ==
    { [ s EXCEPT !.volume = v, !.num_lanes = n,
                 !.cycle_length = c, !.effective_green = g ] :
        s \in TypicalSites, v \in Volumes, n \in LaneCounts,
        c \in Cycles, g \in Greens }
    \cup
    { [ (LowFlowSite @@ DefaultRequest)
            EXCEPT !.volume = v, !.num_lanes = n,
                   !.cycle_length = c, !.effective_green = g ] :
        v \in LowVolumes, n \in { MinLanes, MaxLanes },
        c \in { 900, MaxCycleLength }, g \in { 100, 400 } }

-----------------------------------------------------------------------------
(* scenario_engine: JSON-like values.  A value is the pair of its Python     *)
(* type and its content: x[1] is type(x); numbers are integers; None is      *)
(* JNull.  The content x[2] of a dict is a function from its keys, that of   *)
(* a list a sequence.                                                        *)

JNull    == <<"null", 0>>
JInt(n)  == <<"int", n>>
JStr(s)  == <<"str", s>>
JList(q) == <<"list", q>>
JDict(f) == <<"dict", f>>

EmptyDict == [k \in {} |-> JNull]

\* f without the key k
DictWithout(f, k) == [x \in DOMAIN f \ {k} |-> f[x]]

\* the sequence q without its i-th element, and with x put in front of it
SeqWithout(q, i) == SubSeq(q, 1, i - 1) \o SubSeq(q, i + 1, Len(q))
SeqInsert(q, i, x) == SubSeq(q, 1, i - 1) \o <<x>> \o SubSeq(q, i, Len(q))

Front(s) == SubSeq(s, 1, Len(s) - 1)
Last(s)  == s[Len(s)]

\* A call returns Ok(value), Done(object, previous value) or raises:
\* Exc(exception type, message).
Done(obj, previous) == [ok |-> TRUE, obj |-> obj, previous |-> previous]
Exc(type, e)        == [ok |-> FALSE, exc |-> type, e |-> e]

\* Strings.  A path string is the sequence of its "/" characters and of its
\* maximal runs of other characters: "/items/0" is <<"/", "items", "/", "0">>,
\* "/" is <<"/">> and "" is <<>>.
Slash == "/"

\* the decimal strings of the list indices: int(s) and str(i)
IndexStrings == <<"0", "1", "2", "3", "4", "5">>
IsIndexString(s) == \E i \in 1..Len(IndexStrings) : IndexStrings[i] = s
StrToInt(s) == (CHOOSE i \in 1..Len(IndexStrings) : IndexStrings[i] = s) - 1
IntToStr(i) == IndexStrings[i + 1]

\* the strings offered as volume values: first is value[0] ("" for the empty
\* string), rest is float(value[1:]) and whole is float(value), -1 where the
\* conversion raises ValueError
VolumeStrings ==
    [ s \in {"+100", "-50", "*2", "1200", "abc", ""} |->
        CASE s = "+100" -> [first |-> "+", rest |-> 100, whole |-> 100]
          [] s = "-50"  -> [first |-> "-", rest |-> 50,  whole |-> -50]
          [] s = "*2"   -> [first |-> "*", rest |-> 2,   whole |-> -1]
          [] s = "1200" -> [first |-> "1", rest |-> 200, whole |-> 1200]
          [] s = "abc"  -> [first |-> "a", rest |-> -1,  whole |-> -1]
          [] OTHER      -> [first |-> "",  rest |-> -1,  whole |-> -1] ]

-----------------------------------------------------------------------------
(* scenario_engine/operations.py                                             *)

RECURSIVE SplitSegments(_, _)
\* str.split("/") of the string s, cur being the run read since the last "/"
SplitSegments(s, cur) ==
    IF s = <<>> THEN <<cur>>
    ELSE IF Head(s) = Slash THEN <<cur>> \o SplitSegments(Tail(s), "")
    ELSE SplitSegments(Tail(s), Head(s))

\* path[1:].split("/"), and [] for "/"
parse_path(path) ==
    IF path = <<Slash>> THEN <<>>
    ELSE SplitSegments(IF path = <<>> THEN <<>> ELSE Tail(path), "")

\* current[int(segment)] of a list, current[segment] of a dict
Subscript(current, segment) ==
    IF current[1] = "list"
    THEN IF ~IsIndexString(segment)
         THEN Exc("ValueError", "invalid literal for int()")
         ELSE IF StrToInt(segment) >= Len(current[2])
         THEN Exc("IndexError", "list index out of range")
         ELSE Ok(current[2][StrToInt(segment) + 1])
    ELSE IF current[1] = "dict"
    THEN IF segment \in DOMAIN current[2]
         THEN Ok(current[2][segment])
         ELSE Exc("KeyError", segment)
    ELSE Exc("TypeError", "object is not subscriptable")

RECURSIVE Traverse(_, _)
\* the loop of get_value_at_path
Traverse(current, segments) ==
    IF segments = <<>> THEN Ok(current)
    ELSE IF current[1] \notin {"list", "dict"}
         THEN Exc("KeyError", "Cannot traverse")
    ELSE LET Into(next) == IF next.ok THEN Traverse(next.v, Tail(segments))
                           ELSE next
         IN  Into(Subscript(current, Head(segments)))

get_value_at_path(obj, path) == Traverse(obj, parse_path(path))

RECURSIVE Navigate(_, _)
\* "Navigate to parent": the loop over segments[:-1]
Navigate(current, segments) ==
    IF segments = <<>> THEN Ok(current)
    ELSE LET Into(next) == IF next.ok THEN Navigate(next.v, Tail(segments))
                           ELSE next
         IN  Into(Subscript(current, Head(segments)))

RECURSIVE Put(_, _, _)
\* the object with the value at the (existing) segments changed to value
Put(current, segments, value) ==
    IF segments = <<>> THEN value
    ELSE IF current[1] = "list"
    THEN JList([current[2] EXCEPT ![StrToInt(Head(segments)) + 1] =
                    Put(@, Tail(segments), value)])
    ELSE JDict([current[2] EXCEPT ![Head(segments)] =
                    Put(@, Tail(segments), value)])

\* the last step of set_value_at_path on the parent: (new parent, previous)
SetFinal(current, final_segment, value) ==
    IF current[1] = "list"
    THEN IF ~IsIndexString(final_segment)
         THEN Exc("ValueError", "invalid literal for int()")
         ELSE IF StrToInt(final_segment) >= Len(current[2])
         THEN Exc("IndexError", "list index out of range")
         ELSE Done(JList([current[2] EXCEPT ![StrToInt(final_segment) + 1] = value]),
                   current[2][StrToInt(final_segment) + 1])
    ELSE IF current[1] = "dict"
    THEN Done(JDict((final_segment :> value) @@ current[2]),
              IF final_segment \in DOMAIN current[2]
              THEN current[2][final_segment] ELSE JNull)
    ELSE Exc("AttributeError", "object has no attribute 'get'")

\* the last step of delete_at_path on the parent
DeleteFinal(current, final_segment) ==
    IF current[1] = "list"
    THEN IF ~IsIndexString(final_segment)
         THEN Exc("ValueError", "invalid literal for int()")
         ELSE IF StrToInt(final_segment) >= Len(current[2])
         THEN Exc("IndexError", "list index out of range")
         ELSE Done(JList(SeqWithout(current[2], StrToInt(final_segment) + 1)),
                   current[2][StrToInt(final_segment) + 1])
    ELSE IF current[1] = "dict"
    THEN IF final_segment \in DOMAIN current[2]
         THEN Done(JDict(DictWithout(current[2], final_segment)),
                   current[2][final_segment])
         ELSE Exc("KeyError", final_segment)
    ELSE Exc("AttributeError", "object has no attribute 'pop'")

\* the last step of insert_at_path on the parent; list.insert past the end appends
InsertFinal(current, final_segment, value) ==
    IF current[1] = "list"
    THEN IF final_segment = "-"
         THEN Done(JList(Append(current[2], value)), JNull)
         ELSE IF ~IsIndexString(final_segment)
         THEN Exc("ValueError", "invalid literal for int()")
         ELSE Done(JList(SeqInsert(current[2],
                       Min(StrToInt(final_segment), Len(current[2])) + 1, value)),
                   JNull)
    ELSE IF current[1] = "dict"
    THEN Done(JDict((final_segment :> value) @@ current[2]), JNull)
    ELSE Exc("TypeError", "object does not support item assignment")

\* the deep copy of obj with its parent at segments[:-1] replaced by the
\* outcome of the last step, or the exception of the navigation or the step
EditAtParent(obj, segments, parent, final) ==
    IF ~parent.ok THEN parent
    ELSE IF ~final.ok THEN final
    ELSE Done(Put(obj, Front(segments), final.obj), final.previous)

\* the parent found, or what stands for it when the navigation raised
ParentOr(parent) == IF parent.ok THEN parent.v ELSE JNull

SetAt(obj, segments, value, parent) ==
    EditAtParent(obj, segments, parent,
                 SetFinal(ParentOr(parent), Last(segments), value))

set_value_at_path(obj, path, value) ==
    IF parse_path(path) = <<>> THEN Exc("ValueError", "Cannot replace root object")
    ELSE SetAt(obj, parse_path(path), value,
               Navigate(obj, Front(parse_path(path))))

DeleteAt(obj, segments, parent) ==
    EditAtParent(obj, segments, parent,
                 DeleteFinal(ParentOr(parent), Last(segments)))

delete_at_path(obj, path) ==
    IF parse_path(path) = <<>> THEN Exc("ValueError", "Cannot delete root object")
    ELSE DeleteAt(obj, parse_path(path), Navigate(obj, Front(parse_path(path))))

InsertAt(obj, segments, value, parent) ==
    EditAtParent(obj, segments, parent,
                 InsertFinal(ParentOr(parent), Last(segments), value))

insert_at_path(obj, path, value) ==
    IF parse_path(path) = <<>> THEN Exc("ValueError", "Cannot insert at root")
    ELSE InsertAt(obj, parse_path(path), value,
                  Navigate(obj, Front(parse_path(path))))

\* --- operation handlers: apply_*(obj, change) is (new object, previous value)

apply_replace(obj, change) == set_value_at_path(obj, change.path, change.value)

apply_add(obj, change) == insert_at_path(obj, change.path, change.value)

apply_remove(obj, change) == delete_at_path(obj, change.path)

\* lane_group.get("num_lanes", 1)
NumLanesOf(lane_group) ==
    IF "num_lanes" \in DOMAIN lane_group[2] THEN lane_group[2]["num_lanes"] ELSE JInt(1)

\* a remove_lane without the minimum of one lane
C25_Mutant_SetLanes(obj, change, lane_group) ==
    IF ~lane_group.ok THEN lane_group
    ELSE IF lane_group.v[1] # "dict"
         THEN Exc("AttributeError", "object has no attribute 'get'")
    ELSE IF change.op # "modify_lanes" /\ NumLanesOf(lane_group.v)[1] # "int"
         THEN Exc("TypeError", "unsupported operand type(s)")
    ELSE LET With(previous, new_value) ==
                 Done(Put(obj, parse_path(change.path),
                          JDict(("num_lanes" :> new_value) @@ lane_group.v[2])),
                      previous)
         IN  With(NumLanesOf(lane_group.v),
                  IF change.op = "add_lane"
                  THEN JInt(NumLanesOf(lane_group.v)[2] + 1)
                  ELSE IF change.op = "remove_lane"
                  THEN JInt(NumLanesOf(lane_group.v)[2] - 1)
                  ELSE change.value)

\* the three lane operations on the lane group found at the path:
\* num_lanes = previous + 1, max(1, previous - 1), or change.value
SetLanes(obj, change, lane_group) ==
    IF ~lane_group.ok THEN lane_group
    ELSE IF lane_group.v[1] # "dict"
         THEN Exc("AttributeError", "object has no attribute 'get'")
    ELSE IF change.op # "modify_lanes" /\ NumLanesOf(lane_group.v)[1] # "int"
         THEN Exc("TypeError", "unsupported operand type(s)")
    ELSE LET With(previous, new_value) ==
                 Done(Put(obj, parse_path(change.path),
                          JDict(("num_lanes" :> new_value) @@ lane_group.v[2])),
                      previous)
         IN  With(NumLanesOf(lane_group.v),
                  IF change.op = "add_lane"
                  THEN JInt(NumLanesOf(lane_group.v)[2] + 1)
                  ELSE IF change.op = "remove_lane"
                  THEN JInt(IF NumLanesOf(lane_group.v)[2] - 1 >= 1
                            THEN NumLanesOf(lane_group.v)[2] - 1 ELSE 1)
                  ELSE change.value)

apply_add_lane(obj, change) ==
    SetLanes(obj, change, get_value_at_path(obj, change.path))

apply_remove_lane(obj, change) ==
    SetLanes(obj, change, get_value_at_path(obj, change.path))

apply_modify_lanes(obj, change) ==
    SetLanes(obj, change, get_value_at_path(obj, change.path))

\* new_value of apply_modify_volume for the previous value and change.value:
\* Ok(number) or the exception of float() or of the arithmetic
NewVolume(previous, value) ==
    IF value[1] = "str"
    THEN LET form == VolumeStrings[value[2]]
         IN  IF form.first \in {"+", "-", "*"}
             THEN IF form.rest < 0
                  THEN Exc("ValueError", "could not convert string to float")
                  ELSE IF previous[1] # "int"
                  THEN Exc("TypeError", "unsupported operand type(s)")
                  ELSE IF form.first = "+" THEN Ok(previous[2] + form.rest)
                  ELSE IF form.first = "-" THEN Ok(previous[2] - form.rest)
                  ELSE Ok(previous[2] * form.rest)
             ELSE IF form.whole < 0
                  THEN Exc("ValueError", "could not convert string to float")
                  ELSE Ok(form.whole)
    ELSE IF value[1] # "int"
         THEN Exc("TypeError", "'<' not supported")
    ELSE Ok(value[2])

\* the key apply_modify_volume writes in the parent: the last segment, or
\* "volume" when the path is the root or the parent is a dict without that key
VolumeKey(current, segments) ==
    IF segments = <<>> THEN "volume"
    ELSE IF current[1] = "dict" /\ Last(segments) \notin DOMAIN current[2]
         THEN "volume"
    ELSE Last(segments)

\* the new value stored as it is, negative or not
C26_Mutant_SetVolume(obj, segments, current, final_segment, value) ==
    IF current[1] # "dict"
    THEN Exc("AttributeError", "object has no attribute 'get'")
    ELSE LET Store(previous, new_value) ==
                 IF ~new_value.ok THEN new_value
                 ELSE Done(Put(obj, Front(segments),
                               JDict((final_segment :> JInt(new_value.v)) @@ current[2])),
                           previous)
             From(previous) == Store(previous, NewVolume(previous, value))
         IN  From(IF final_segment \in DOMAIN current[2]
                  THEN current[2][final_segment] ELSE JInt(0))

\* from current.get(final_segment, 0) on: the parent with max(0, new_value)
SetVolume(obj, segments, current, final_segment, value) ==
    IF current[1] # "dict"
    THEN Exc("AttributeError", "object has no attribute 'get'")
    ELSE LET Store(previous, new_value) ==
                 IF ~new_value.ok THEN new_value
                 ELSE Done(Put(obj, Front(segments),
                               JDict((final_segment :>
                                        JInt(IF new_value.v >= 0 THEN new_value.v ELSE 0))
                                     @@ current[2])),
                           previous)
             From(previous) == Store(previous, NewVolume(previous, value))
         IN  From(IF final_segment \in DOMAIN current[2]
                  THEN current[2][final_segment] ELSE JInt(0))

ModifyVolumeAt(obj, segments, value, parent) ==
    IF ~parent.ok THEN parent
    ELSE SetVolume(obj, segments, parent.v, VolumeKey(parent.v, segments), value)

apply_modify_volume(obj, change) ==
    ModifyVolumeAt(obj, parse_path(change.path), change.value,
                   Navigate(obj, Front(parse_path(change.path))))

\* timing.update(change.value) when the value is a dict
UpdateTiming(obj, change, timing) ==
    IF ~timing.ok THEN timing
    ELSE IF change.value[1] # "dict" THEN Done(obj, timing.v)
    ELSE IF timing.v[1] # "dict"
         THEN Exc("AttributeError", "object has no attribute 'update'")
    ELSE Done(Put(obj, parse_path(change.path),
                  JDict(change.value[2] @@ timing.v[2])),
              timing.v)

apply_modify_timing(obj, change) ==
    UpdateTiming(obj, change, get_value_at_path(obj, change.path))

ChangeOperation ==
    { "replace", "add", "remove", "add_lane", "remove_lane",
      "modify_lanes", "modify_volume", "modify_timing" }

\* OPERATION_HANDLERS.get(change.op) and the call of the handler
apply_operation(obj, change) ==
    CASE change.op = "replace"       -> apply_replace(obj, change)
      [] change.op = "add"           -> apply_add(obj, change)
      [] change.op = "remove"        -> apply_remove(obj, change)
      [] change.op = "add_lane"      -> apply_add_lane(obj, change)
      [] change.op = "remove_lane"   -> apply_remove_lane(obj, change)
      [] change.op = "modify_lanes"  -> apply_modify_lanes(obj, change)
      [] change.op = "modify_volume" -> apply_modify_volume(obj, change)
      [] change.op = "modify_timing" -> apply_modify_timing(obj, change)
      [] OTHER -> Exc("ValueError", "Unsupported operation")

\* ScenarioChange(op, path, value); previous_value defaults to None
ScenarioChange(op, path, value) ==
    [op |-> op, path |-> path, value |-> value, previous_value |-> JNull]

-----------------------------------------------------------------------------
(* scenario_engine/validation.py.  A validator returns the sequence of its   *)
(* ValidationErrors (none or one), or raises.                                *)

ValidationError(path, message, change_index) ==
    [path |-> path, message |-> message, change_index |-> change_index]

NoErrors == [ok |-> TRUE, errors |-> <<>>]
OneError(change, message, change_index) ==
    [ok |-> TRUE, errors |-> <<ValidationError(change.path, message, change_index)>>]

\* except (KeyError, IndexError, TypeError): any other exception propagates
PathCheck(change, found, message, change_index) ==
    IF found.ok THEN NoErrors
    ELSE IF found.exc \in {"KeyError", "IndexError", "TypeError"}
         THEN OneError(change, message, change_index)
    ELSE found

validate_path_exists(obj, change, change_index) ==
    PathCheck(change, get_value_at_path(obj, change.path),
              "Path does not exist", change_index)

\* "/" + "/".join(segments)
JoinPath(segments) ==
    IF segments = <<>> THEN <<Slash>>
    ELSE [ i \in 1..(2 * Len(segments)) |->
             IF i % 2 = 1 THEN Slash ELSE segments[i \div 2] ]

validate_parent_exists(obj, change, change_index) ==
    IF Len(parse_path(change.path)) <= 1 THEN NoErrors
    ELSE PathCheck(change,
                   get_value_at_path(obj, JoinPath(Front(parse_path(change.path)))),
                   "Parent path does not exist", change_index)

validate_value_required(change, change_index) ==
    IF /\ change.op \in {"replace", "add", "modify_lanes", "modify_volume",
                         "modify_timing"}
       /\ change.value[1] = "null"
    THEN OneError(change, "requires a value", change_index)
    ELSE NoErrors

validate_lanes_value(change, change_index) ==
    IF change.op # "modify_lanes" THEN NoErrors
    ELSE IF change.value[1] # "int" \/ change.value[2] < 1
         THEN OneError(change, "Number of lanes must be a positive integer", change_index)
    ELSE IF change.value[2] > 8
         THEN OneError(change, "Number of lanes cannot exceed 8", change_index)
    ELSE NoErrors

validate_volume_value(change, change_index) ==
    IF change.op # "modify_volume" THEN NoErrors
    ELSE IF change.value[1] = "str"
         THEN IF VolumeStrings[change.value[2]].first = ""
              THEN Exc("IndexError", "string index out of range")
              ELSE IF VolumeStrings[change.value[2]].first \in {"+", "-", "*"}
              THEN IF VolumeStrings[change.value[2]].rest < 0
                   THEN OneError(change, "Invalid relative volume value", change_index)
                   ELSE NoErrors
              ELSE IF VolumeStrings[change.value[2]].whole < 0
                   THEN OneError(change, "Invalid volume value", change_index)
                   ELSE NoErrors
    ELSE IF change.value[1] # "int"
         THEN OneError(change, "Volume must be a number or relative string", change_index)
    ELSE IF change.value[2] < 0
         THEN OneError(change, "Volume cannot be negative", change_index)
    ELSE NoErrors

\* the check of one timing parameter of the value, when present
TimingParameterBad(value, key, upper) ==
    /\ key \in DOMAIN value[2]
    /\ \/ value[2][key][1] # "int"
       \/ value[2][key][2] <= 0
       \/ (upper > 0 /\ value[2][key][2] > upper)

validate_timing_value(change, change_index) ==
    IF change.op # "modify_timing" THEN NoErrors
    ELSE IF change.value[1] # "dict"
         THEN OneError(change, "Timing value must be a dictionary", change_index)
    ELSE IF TimingParameterBad(change.value, "cycle_length", 300)
         THEN OneError(change, "cycle_length must be between 0 and 300", change_index)
    ELSE IF TimingParameterBad(change.value, "effective_green", 0)
         THEN OneError(change, "effective_green must be positive", change_index)
    ELSE NoErrors

RECURSIVE CollectErrors(_)
\* the errors of the checks in their order, or the first exception raised
CollectErrors(checks) ==
    IF checks = <<>> THEN NoErrors
    ELSE IF ~Head(checks).ok THEN Head(checks)
    ELSE LET Then(rest) == IF ~rest.ok THEN rest
                           ELSE [ok |-> TRUE,
                                 errors |-> Head(checks).errors \o rest.errors]
         IN  Then(CollectErrors(Tail(checks)))

validate_change(obj, change, change_index) ==
    CollectErrors(<<
        validate_value_required(change, change_index),
        IF change.op \in {"replace", "remove", "add_lane", "remove_lane",
                          "modify_lanes", "modify_timing"}
        THEN validate_path_exists(obj, change, change_index) ELSE NoErrors,
        IF change.op = "add"
        THEN validate_parent_exists(obj, change, change_index) ELSE NoErrors,
        validate_lanes_value(change, change_index),
        validate_volume_value(change, change_index),
        validate_timing_value(change, change_index) >>)

-----------------------------------------------------------------------------
(* scenario_engine/service.py                                                *)

RECURSIVE ValidateFrom(_, _, _, _)
\* the loop of validate_changes from the i-th change on, current being the
\* simulated object: the errors collected, or the exception a validator raised
ValidateFrom(current, changes, i, all_errors) ==
    IF i > Len(changes) THEN [ok |-> TRUE, errors |-> all_errors]
    ELSE LET Simulated(out) ==
                 IF out.ok
                 THEN ValidateFrom(out.obj, changes, i + 1, all_errors)
                 ELSE ValidateFrom(current, changes, i + 1,
                          Append(all_errors,
                                 ValidationError(changes[i].path,
                                                 "Simulation failed", i - 1)))
             Checked(errors) ==
                 IF ~errors.ok THEN errors
                 ELSE IF errors.errors = <<>>
                      THEN Simulated(apply_operation(current, changes[i]))
                 ELSE ValidateFrom(current, changes, i + 1,
                                   all_errors \o errors.errors)
         IN  Checked(validate_change(current, changes[i], i - 1))

\* a validation that checks nothing
C29_Mutant_validate_changes(obj, changes) == [ok |-> TRUE, errors |-> <<>>]

validate_changes(obj, changes) == ValidateFrom(obj, changes, 1, <<>>)

ChangeResult(success, changes_applied, errors, modified_object, applied_changes) ==
    [ success |-> success, changes_applied |-> changes_applied, errors |-> errors,
      modified_object |-> modified_object, applied_changes |-> applied_changes ]

\* copy.deepcopy: a new object, distinct from the caller's
deepcopy(ref) == "copy"

\* the changes taken from the end of the list
C10_Mutant_NextChange(changes, i) == changes[Len(changes) + 1 - i]

\* for change in changeset.changes: the i-th pass takes the i-th change
NextChange(changes, i) == changes[i]

RECURSIVE DiffKeys(_, _, _, _, _)
RECURSIVE DiffItems(_, _, _, _, _)
RECURSIVE compute_diff(_, _, _, _)

\* the loop over all_keys, keys being what is left of its iteration order
DiffKeys(original, modified, path, keys, order) ==
    IF keys = <<>> THEN <<>>
    ELSE LET key      == Head(keys)
             key_path == path \o <<Slash, key>>
         IN  ( IF key \notin DOMAIN original[2] /\ key \notin DOMAIN modified[2]
               THEN <<>>
               ELSE IF key \notin DOMAIN original[2]
               THEN << ScenarioChange("add", key_path, modified[2][key]) >>
               ELSE IF key \notin DOMAIN modified[2]
               THEN << [ ScenarioChange("remove", key_path, JNull)
                           EXCEPT !.previous_value = original[2][key] ] >>
               ELSE compute_diff(original[2][key], modified[2][key], key_path, order) )
             \o DiffKeys(original, modified, path, Tail(keys), order)

\* the loop over range(max_len) from index i on
DiffItems(original, modified, path, i, order) ==
    IF i >= Len(original[2]) /\ i >= Len(modified[2]) THEN <<>>
    ELSE LET item_path == path \o <<Slash, IntToStr(i)>>
         IN  ( IF i >= Len(original[2])
               THEN << ScenarioChange("add", item_path, modified[2][i + 1]) >>
               ELSE IF i >= Len(modified[2])
               THEN << [ ScenarioChange("remove", item_path, JNull)
                           EXCEPT !.previous_value = original[2][i + 1] ] >>
               ELSE compute_diff(original[2][i + 1], modified[2][i + 1], item_path, order) )
             \o DiffItems(original, modified, path, i + 1, order)

\* compute_diff(original, modified, path); order is the order in which the
\* set all_keys yields the keys (a sequence holding every key once)
compute_diff(original, modified, path, order) ==
    IF original[1] # modified[1]
    THEN << [ ScenarioChange("replace", IF path = <<>> THEN <<Slash>> ELSE path,
                             modified)
                EXCEPT !.previous_value = original ] >>
    ELSE IF original[1] = "dict"
    THEN DiffKeys(original, modified, path, order, order)
    ELSE IF original[1] = "list"
    THEN DiffItems(original, modified, path, 0, order)
    ELSE IF original # modified
    THEN << [ ScenarioChange("replace", path, modified)
                EXCEPT !.previous_value = original ] >>
    ELSE <<>>

-----------------------------------------------------------------------------
(* hcm_engine: the calls.  A caller constructs a LaneGroupInput and passes   *)
(* it to compute_lane_group_results; it may then call again, with a larger   *)
(* volume, a longer green or the same input, and finally once more with the  *)
(* input of its first call.  prev keeps the first call and its outcome.      *)

NoRequest == [ none |-> TRUE ]
NoResult  == [ none |-> TRUE ]
NoCall    == [ none |-> TRUE ]
NoLocals  == [ none |-> TRUE ]

PcValues == { "idle", "rejected", "constructed", "done", "failed" }

InitHcm ==
    /\ req = NoRequest
    /\ pc = "idle"
    /\ res = NoResult
    /\ err = ""
    /\ prev = NoCall

InitUnitIdle ==
    /\ ucall = NoCall
    /\ uret = NoResult

InitScenIdle ==
    /\ sobj = JNull
    /\ sorig = JNull
    /\ scs = <<>>
    /\ sval = TRUE
    /\ sdiff = NoCall
    /\ sloc = NoLocals
    /\ sres = NoResult
    /\ spc = "off"

\* LaneGroupInput(...): a valid instance, or a validation error and no instance
ConstructInput(r) ==
    /\ req' = r
    /\ res' = NoResult
    /\ IF LaneGroupInputErrors(r) = {}
       THEN pc' = "constructed" /\ err' = ""
       ELSE pc' = "rejected" /\ err' = "ValidationError"

\* the call that has just ended, kept for the comparison with a later one
ThisCall == [ req |-> req, res |-> res, pc |-> pc, err |-> err, between |-> 0 ]

Construct ==
    /\ pc = "idle"
    /\ \E r \in Requests : ConstructInput(r)
    /\ UNCHANGED prev
    /\ UNCHANGED <<unitVars, scenVars>>

\* compute_lane_group_results(inputs) on the constructed instance
Compute ==
    /\ pc = "constructed"
    /\ \E out \in { compute_lane_group_results(req) } :
          IF out.ok
          THEN res' = out.v /\ pc' = "done" /\ err' = ""
          ELSE res' = NoResult /\ pc' = "failed" /\ err' = out.e
    /\ UNCHANGED <<req, prev>>
    /\ UNCHANGED <<unitVars, scenVars>>

\* a second call on an input that differs from the first in volume only,
\* the volume being larger
IncreaseVolume ==
    /\ pc \in { "done", "failed" }
    /\ prev = NoCall
    /\ \E v \in Volumes :
          /\ v > req.volume
          /\ [ req EXCEPT !.volume = v ] \in Requests
          /\ ConstructInput([ req EXCEPT !.volume = v ])
    /\ prev' = ThisCall
    /\ UNCHANGED <<unitVars, scenVars>>

\* a second call on an input that differs from the first in effective_green
\* only, the green being longer
IncreaseGreen ==
    /\ pc \in { "done", "failed" }
    /\ prev = NoCall
    /\ \E g \in Greens :
          /\ g > req.effective_green
          /\ [ req EXCEPT !.effective_green = g ] \in Requests
          /\ ConstructInput([ req EXCEPT !.effective_green = g ])
    /\ prev' = ThisCall
    /\ UNCHANGED <<unitVars, scenVars>>

\* a second call on an equal input
Repeat ==
    /\ pc \in { "done", "failed" }
    /\ prev = NoCall
    /\ ConstructInput(req)
    /\ prev' = ThisCall
    /\ UNCHANGED <<unitVars, scenVars>>

\* a third call, on the input of the first, after a call on another input
RepeatFirst ==
    /\ pc \in { "rejected", "done", "failed" }
    /\ prev # NoCall
    /\ prev.between = 0
    /\ req # prev.req
    /\ ConstructInput(prev.req)
    /\ prev' = [ prev EXCEPT !.between = 1 ]
    /\ UNCHANGED <<unitVars, scenVars>>

Next ==
    \/ Construct
    \/ Compute
    \/ IncreaseVolume
    \/ IncreaseGreen
    \/ Repeat
    \/ RepeatFirst

Init == InitHcm /\ InitUnitIdle /\ InitScenIdle

Spec == Init /\ [][Next]_vars

-----------------------------------------------------------------------------
(* Single calls of the functions of hcm_engine, on arguments of the caller's *)
(* choice (no LaneGroupInput construction in front of them).                 *)

\* delays offered to classify_los: every hundredth of a second from
\* DelayMargin below 0 to DelayMargin above the last threshold
DelayMargin == 200
Delays == (0 - DelayMargin)..(LosThresholdE + DelayMargin)

CallClassifyLos ==
    /\ ucall = NoCall
    /\ \E d \in Delays :
          /\ ucall' = [ fn |-> "classify_los", control_delay |-> d ]
          /\ uret' = classify_los(d)
    /\ UNCHANGED <<hcmVars, scenVars>>

\* arguments offered to the capacity and delay functions, valid and not:
\* cycle lengths and greens in tenths of a second, saturation flows and
\* capacities in tenths of a veh/h, ratios in 1/10000, periods in quarter hours
UnitCycles      == { -10, 0, 900, 1501, 2000 }
UnitGreens      == { -10, 0, 400, 898, 900, 1500, 1998, 2000, 2010 }
UnitRatios      == { 0, 5000, 9990, 9995, 10000, 10005, 15000, 30000 }
UnitFlows       == { -10, 0, 5, 19000, 36005 }
UnitVolumes     == { -1, 0, 800, 1519, 1520, 5000 }
UnitCapacities  == { -10, 0, 1, 8444, 15190 }
UnitPeriods     == { -1, 0, 1, 4 }
UnitFilterings  == { 0, 10 }

CallComputeCapacity ==
    /\ ucall = NoCall
    /\ \E s \in UnitFlows, g \in UnitGreens, c \in UnitCycles :
          /\ ucall' = [ fn |-> "compute_capacity", saturation_flow |-> s,
                        effective_green |-> g, cycle_length |-> c ]
          /\ uret' = compute_capacity(s, g, c)
    /\ UNCHANGED <<hcmVars, scenVars>>

CallComputeVcRatio ==
    /\ ucall = NoCall
    /\ \E v \in UnitVolumes, c \in UnitCapacities :
          /\ ucall' = [ fn |-> "compute_vc_ratio", volume |-> v, capacity |-> c ]
          /\ uret' = compute_vc_ratio(v, c)
    /\ UNCHANGED <<hcmVars, scenVars>>

CallComputeUniformDelay ==
    /\ ucall = NoCall
    /\ \E g \in UnitGreens, c \in UnitCycles, x \in UnitRatios :
          /\ ucall' = [ fn |-> "compute_uniform_delay", effective_green |-> g,
                        cycle_length |-> c, vc_ratio |-> x ]
          /\ uret' = compute_uniform_delay(g, c, x)
    /\ UNCHANGED <<hcmVars, scenVars>>

CallComputeControlDelay ==
    /\ ucall = NoCall
    /\ \E g \in { 0, 400, 900 }, c \in UnitCycles \ { 2000 }, x \in UnitRatios,
          cap \in UnitCapacities, T \in UnitPeriods,
          k \in { "pretimed", "actuated_coordinated" }, I \in UnitFilterings :
          /\ ucall' = [ fn |-> "compute_control_delay", effective_green |-> g,
                        cycle_length |-> c, vc_ratio |-> x, capacity |-> cap,
                        analysis_period_hours |-> T, control_type |-> k,
                        upstream_filtering_factor |-> I ]
          /\ uret' = compute_control_delay(g, c, x, cap, T, k, I)
    /\ UNCHANGED <<hcmVars, scenVars>>

\* compute_left_turn_factor on every movement type and every whole percentage;
\* the value returned is the unrounded factor, a fraction <<numerator, denominator>>
CallComputeLeftTurnFactor ==
    /\ ucall = NoCall
    /\ \E m \in MovementTypes, p \in 0..MaxPct :
          /\ ucall' = [ fn |-> "compute_left_turn_factor", movement_type |-> m,
                        left_turn_pct |-> p ]
          /\ uret' = Ok(compute_left_turn_factor(m, p))
    /\ UNCHANGED <<hcmVars, scenVars>>

NextUnit ==
    \/ CallClassifyLos
    \/ CallComputeCapacity
    \/ CallComputeVcRatio
    \/ CallComputeUniformDelay
    \/ CallComputeControlDelay
    \/ CallComputeLeftTurnFactor

SpecUnit == Init /\ [][NextUnit]_vars

-----------------------------------------------------------------------------
(* app: the HTTP layer in front of compute_lane_group_results.  A request is *)
(* a POST of a JSON body to a route <<router prefix, path>>; the response is *)
(* its status with the number of times the handler invoked the engine.       *)

\* app/main.py: the prefixes of the routers included in the application
\* (health has none); app/api/compute.py is not among the included routers
IncludedRouters == { "", "/hcm" }

HcmComputeLos     == << "/hcm", "/compute-los" >>
ComputeSignalized == << "/compute", "/signalized" >>

\* bodies that are no engine input at all: no JSON, or a required field missing
MalformedBodies == { [ malformed |-> "not json" ], [ malformed |-> "volume missing" ] }
Bodies == Requests \cup MalformedBodies

Response(status, engine_calls) == [ status |-> status, engine_calls |-> engine_calls ]

\* SignalizedRequest and SignalTimingRequest: the Field constraints of the
\* request model of /compute/signalized (it has no validator comparing
\* effective_green with cycle_length)
SignalizedRequestErrors(b) ==
    IF b \in MalformedBodies THEN { "body" }
    ELSE
    (IF b.volume >= 0 THEN {} ELSE {"volume"})
    \cup (IF b.num_lanes >= 1 /\ b.num_lanes <= 8 THEN {} ELSE {"num_lanes"})
    \cup (IF b.movement_type \in MovementTypes THEN {} ELSE {"movement_type"})
    \cup (IF b.base_saturation_flow > 0 THEN {} ELSE {"base_saturation_flow"})
    \cup (IF b.lane_width > 80 /\ b.lane_width <= 240 THEN {} ELSE {"lane_width"})
    \cup (IF b.heavy_vehicle_pct >= 0 /\ b.heavy_vehicle_pct <= 100
          THEN {} ELSE {"heavy_vehicle_pct"})
    \cup (IF b.grade_pct >= -10 /\ b.grade_pct <= 10 THEN {} ELSE {"grade_pct"})
    \cup (IF b.parking_maneuvers_per_hour >= 0 THEN {} ELSE {"parking_maneuvers_per_hour"})
    \cup (IF b.bus_stops_per_hour >= 0 THEN {} ELSE {"bus_stops_per_hour"})
    \cup (IF b.area_type \in {"cbd", "other"} THEN {} ELSE {"area_type"})
    \cup (IF b.left_turn_pct >= 0 /\ b.left_turn_pct <= 100 THEN {} ELSE {"left_turn_pct"})
    \cup (IF b.right_turn_pct >= 0 /\ b.right_turn_pct <= 100 THEN {} ELSE {"right_turn_pct"})
    \cup (IF /\ b.cycle_length > 0 /\ b.cycle_length <= 3000
             /\ b.effective_green > 0
             /\ b.control_type \in ControlTypes
          THEN {} ELSE {"signal_timing"})
    \cup (IF b.analysis_period_hours > 0 /\ b.analysis_period_hours <= 4
          THEN {} ELSE {"analysis_period_hours"})
    \cup (IF b.upstream_filtering_factor >= 0 /\ b.upstream_filtering_factor <= 10
          THEN {} ELSE {"upstream_filtering_factor"})

\* ComputeLOSRequest: a body whose lane_group is a LaneGroupInput
ComputeLOSRequestErrors(b) ==
    IF b \in MalformedBodies THEN { "body" }
    ELSE IF LaneGroupInputErrors(b) = {} THEN {} ELSE { "lane_group" }

\* POST /compute/signalized.  The framework answers 422 to a body that is no
\* SignalizedRequest without entering the handler.  In the handler the
\* construction of LaneGroupInput and the engine both run inside the try: a
\* pydantic ValidationError is a ValueError, as is the engine's own error, and
\* both are answered with 422.
compute_signalized(b) ==
    IF SignalizedRequestErrors(b) # {} THEN Response(422, 0)
    ELSE IF LaneGroupInputErrors(b) # {} THEN Response(422, 0)
    ELSE IF compute_lane_group_results(b).ok THEN Response(200, 1)
    ELSE Response(422, 1)

\* POST /hcm/compute-los.  The framework answers 422 to a body that is no
\* ComputeLOSRequest; the handler calls the engine with nothing around the
\* call, so a ValueError of the engine is answered with 500.
compute_los(b) ==
    IF ComputeLOSRequestErrors(b) # {} THEN Response(422, 0)
    ELSE IF compute_lane_group_results(b).ok THEN Response(200, 1)
    ELSE Response(500, 1)

\* the application: a route of a router that is not included is not found
Dispatch(route, b) ==
    IF route[1] \notin IncludedRouters THEN Response(404, 0)
    ELSE IF route = HcmComputeLos THEN compute_los(b)
    ELSE IF route = ComputeSignalized THEN compute_signalized(b)
    ELSE Response(404, 0)

Post(route) ==
    /\ ucall = NoCall
    /\ \E b \in Bodies :
          /\ ucall' = [ fn |-> "POST", route |-> route, body |-> b ]
          /\ uret' = Dispatch(route, b)
    /\ UNCHANGED <<hcmVars, scenVars>>

PostComputeSignalized == Post(ComputeSignalized)
PostHcmComputeLos     == Post(HcmComputeLos)

NextApi ==
    \/ PostComputeSignalized
    \/ PostHcmComputeLos

SpecApi == Init /\ [][NextApi]_vars

-----------------------------------------------------------------------------
(* scenario_engine: the objects and changesets of the model, and the calls   *)
(* apply_changes(obj, changeset, validate) and                               *)
(* apply_changes(original, ScenarioChangeSet(changes=compute_diff(original,  *)
(* modified))).  The roots are dicts; the keys hold no "/".                  *)

Intersection ==
    JDict([ volume        |-> JInt(800),
            items         |-> JList(<<JInt(1), JInt(2), JInt(3)>>),
            lane_groups   |-> JList(<< JDict([ num_lanes |-> JInt(2),
                                               volume    |-> JInt(500) ]) >>),
            signal_timing |-> JDict([ cycle_length    |-> JInt(90),
                                      effective_green |-> JInt(40) ]) ])

SingleLane == JDict([ num_lanes |-> JInt(1), volume |-> JInt(0) ])

ScenarioObjects == { Intersection, SingleLane }

OfferedChanges ==
    { ScenarioChange("modify_volume", <<Slash, "volume">>, JStr("+100")),
      ScenarioChange("modify_volume", <<Slash, "volume">>, JStr("*2")),
      ScenarioChange("replace", <<Slash, "volume">>, JInt(1000)),
      ScenarioChange("replace", <<Slash, "missing">>, JInt(5)),
      ScenarioChange("replace", <<Slash, "items", Slash, "abc">>, JInt(1)),
      ScenarioChange("replace", <<Slash>>, JInt(9)),
      ScenarioChange("remove", <<Slash, "items", Slash, "0">>, JNull),
      ScenarioChange("remove", <<Slash, "items", Slash, "5">>, JNull),
      ScenarioChange("add", <<Slash, "items", Slash, "-">>, JInt(9)),
      ScenarioChange("add_lane", <<Slash, "lane_groups", Slash, "0">>, JNull),
      ScenarioChange("remove_lane", <<Slash>>, JNull),
      ScenarioChange("modify_lanes", <<Slash, "lane_groups", Slash, "0">>, JInt(9)),
      ScenarioChange("modify_timing", <<Slash, "signal_timing">>,
                     JDict([ cycle_length |-> JInt(120) ])),
      ScenarioChange("remove_lane", <<Slash, "lane_groups", Slash, "0">>, JNull),
      ScenarioChange("modify_lanes", <<Slash, "lane_groups", Slash, "0">>, JInt(8)),
      ScenarioChange("add", <<Slash, "volume">>, JInt(5)),
      ScenarioChange("modify_volume", <<Slash, "volume">>, JStr("-50")),
      ScenarioChange("modify_volume", <<Slash, "volume">>, JInt(1200)),
      ScenarioChange("modify_volume", <<Slash, "volume">>, JStr("")),
      ScenarioChange("modify_volume", <<Slash, "lane_groups", Slash, "0">>, JStr("+100")),
      ScenarioChange("modify_volume", <<Slash, "signal_timing">>, JInt(1200)) }

\* the longest changeset offered
MaxChanges == 2
ChangeSets == UNION { [1..n -> OfferedChanges] : n \in 0..MaxChanges }

\* the objects offered to compute_diff: a list of 1 to 4 items, with or
\* without a volume, with or without a nested dict
DiffLists == { [ i \in 1..n |-> JInt(i) ] : n \in 1..4 }
DiffObjects ==
    { JDict(("items" :> JList(q)) @@ v @@ t) :
        q \in DiffLists,
        v \in { EmptyDict, "volume" :> JInt(800) },
        t \in { EmptyDict, "timing" :> JDict("cycle" :> JInt(90)),
                "timing" :> JDict("cycle" :> JInt(120)) } }

\* the orders in which a set of the keys may be iterated
KeyOrders ==
    { <<a, b, c, "cycle">> : a, b, c \in {"items", "volume", "timing"} }
    \cap { o \in Seq({"items", "volume", "timing", "cycle"}) :
             Len(o) = 4 /\ \A i, j \in 1..4 : i # j => o[i] # o[j] }

ScenPcValues == { "off", "called", "applying", "returned", "raised" }

CallApplyChanges ==
    /\ spc = "off"
    /\ \E obj \in ScenarioObjects, changes \in ChangeSets, validate \in BOOLEAN :
          /\ sobj' = obj
          /\ sorig' = obj
          /\ scs' = changes
          /\ sval' = validate
    /\ sdiff' = NoCall
    /\ sloc' = NoLocals
    /\ sres' = NoResult
    /\ spc' = "called"
    /\ UNCHANGED <<hcmVars, unitVars>>

CallDiffThenApply ==
    /\ spc = "off"
    /\ \E original \in DiffObjects, modified \in DiffObjects, order \in KeyOrders :
          /\ sobj' = original
          /\ sorig' = original
          /\ scs' = compute_diff(original, modified, <<>>, order)
          /\ sdiff' = [ modified |-> modified ]
    /\ sval' = TRUE
    /\ sloc' = NoLocals
    /\ sres' = NoResult
    /\ spc' = "called"
    /\ UNCHANGED <<hcmVars, unitVars>>

\* the object `current` refers to
Current == IF sloc.cur = "obj" THEN sobj ELSE sloc.work

\* current = deepcopy(obj); applied_changes = []
EnterApplyLoop ==
    /\ sloc' = [ cur |-> deepcopy("obj"), work |-> sobj, i |-> 1, applied |-> <<>> ]
    /\ spc' = "applying"
    /\ sres' = sres

\* apply_changes up to its loop: the validation when requested
Validate ==
    /\ spc = "called"
    /\ IF sval
       THEN \E errors \in { validate_changes(sobj, scs) } :
               IF ~errors.ok
               THEN /\ spc' = "raised"
                    /\ sres' = [ raised |-> errors.exc ]
                    /\ sloc' = sloc
               ELSE IF errors.errors # <<>>
               THEN /\ spc' = "returned"
                    /\ sres' = ChangeResult(FALSE, 0, errors.errors, JNull, <<>>)
                    /\ sloc' = sloc
               ELSE EnterApplyLoop
       ELSE EnterApplyLoop
    /\ UNCHANGED <<sobj, sorig, scs, sval, sdiff>>
    /\ UNCHANGED <<hcmVars, unitVars>>

\* one pass of the loop: the handler copies its argument (result =
\* deepcopy(obj)), works on the copy and returns it; an exception ends the call
ApplyStep ==
    /\ spc = "applying"
    /\ sloc.i <= Len(scs)
    /\ \E out \in { apply_operation(Current, NextChange(scs, sloc.i)) },
          result \in { deepcopy(sloc.cur) } :
          IF out.ok
          THEN /\ sobj' = IF result = "obj" THEN out.obj ELSE sobj
               /\ sloc' = [ cur     |-> result,
                            work    |-> IF result = "obj" THEN sloc.work ELSE out.obj,
                            i       |-> sloc.i + 1,
                            applied |-> Append(sloc.applied,
                                            [ NextChange(scs, sloc.i)
                                                EXCEPT !.previous_value = out.previous ]) ]
               /\ spc' = spc
               /\ sres' = sres
          ELSE /\ sres' = ChangeResult(FALSE, Len(sloc.applied),
                              << ValidationError(scs[Len(sloc.applied) + 1].path,
                                                 out.e, Len(sloc.applied)) >>,
                              JNull, sloc.applied)
               /\ spc' = "returned"
               /\ UNCHANGED <<sobj, sloc>>
    /\ UNCHANGED <<sorig, scs, sval, sdiff>>
    /\ UNCHANGED <<hcmVars, unitVars>>

ApplyReturn ==
    /\ spc = "applying"
    /\ sloc.i > Len(scs)
    /\ sres' = ChangeResult(TRUE, Len(sloc.applied), <<>>, Current, sloc.applied)
    /\ spc' = "returned"
    /\ UNCHANGED <<sobj, sorig, scs, sval, sdiff, sloc>>
    /\ UNCHANGED <<hcmVars, unitVars>>

NextScen ==
    \/ CallApplyChanges
    \/ CallDiffThenApply
    \/ Validate
    \/ ApplyStep
    \/ ApplyReturn

SpecScen == Init /\ [][NextScen]_vars

-----------------------------------------------------------------------------
(* Properties of hcm_engine                                                  *)

\* the constraints C1 names
ViolatesConstruction(r) ==
    \/ r.effective_green > r.cycle_length
    \/ r.volume < 0
    \/ r.num_lanes < 1
    \/ r.num_lanes > 8

\* C1: constructing the input fails whenever effective_green > cycle_length,
\* volume < 0, num_lanes < 1 or num_lanes > 8, and it fails before any
\* pipeline step: such arguments end in "rejected" with nothing computed, so
\* every input that compute_lane_group_results is given or has worked on
\* satisfies the four constraints.
C1_ConstructionRejects ==
    /\ (pc # "idle" /\ ViolatesConstruction(req))
          => (pc = "rejected" /\ res = NoResult /\ err = "ValidationError")
    /\ pc \in { "constructed", "done", "failed" } => ~ViolatesConstruction(req)

\* a green longer than an otherwise acceptable cycle has been rejected
C1_Witness ==
    /\ pc = "rejected"
    /\ CycleLengthOk(req)
    /\ req.effective_green > req.cycle_length
    /\ VolumeOk(req) /\ NumLanesOk(req)

\* C2 as stated: for every accepted input the pipeline returns a
\* LaneGroupResult, no step of it raises.
C2_PipelineNeverRaises == pc # "failed"

\* C3: in every returned LaneGroupResult, is_oversaturated is true exactly
\* when the reported vc_ratio (rounded to 4 decimals) is greater than 1.0.
C3_OversaturatedIffRatioAboveOne ==
    pc = "done" => (res.is_oversaturated <=> res.vc_ratio > 10000)

\* a result whose volume exceeds its capacity while the rounded ratio is 1.0000
C3_Witness ==
    /\ pc = "done"
    /\ res.vc_ratio = 10000
    /\ 10 * res.volume > res.capacity
    /\ ~res.is_oversaturated

\* the grade C4 gives a delay d >= 0 (hundredths of a second)
C4_Grade(d) ==
    IF d <= 1000 THEN "A"
    ELSE IF 1000 < d /\ d <= 2000 THEN "B"
    ELSE IF 2000 < d /\ d <= 3500 THEN "C"
    ELSE IF 3500 < d /\ d <= 5500 THEN "D"
    ELSE IF 5500 < d /\ d <= 8000 THEN "E"
    ELSE "F"

GradeIndex(g) == CHOOSE i \in 1..Len(LosGrades) : LosGrades[i] = g

\* C4: classify_los(d) is A for 0 <= d <= 10, B for 10 < d <= 20, C for
\* 20 < d <= 35, D for 35 < d <= 55, E for 55 < d <= 80 and F above 80, so
\* the grade of the next larger delay is never a better one; for d < 0 it
\* raises instead of returning a grade.
C4_ClassifyLos ==
    (ucall # NoCall /\ ucall.fn = "classify_los") =>
        IF ucall.control_delay < 0
        THEN ~uret.ok
        ELSE /\ uret.ok
             /\ uret.v = C4_Grade(ucall.control_delay)
             /\ GradeIndex(uret.v)
                  <= GradeIndex(classify_los(ucall.control_delay + 1).v)

\* a delay of exactly 10.00 s has been graded A
C4_Witness ==
    /\ ucall # NoCall
    /\ ucall.fn = "classify_los"
    /\ ucall.control_delay = LosThresholdA
    /\ uret.ok /\ uret.v = "A"

\* both the first call and the present one have returned a result
BothReturned == prev # NoCall /\ prev.pc = "done" /\ pc = "done"

\* C5: two accepted inputs that differ in volume only, v1 <= v2: the results
\* have vc_ratio(v1) <= vc_ratio(v2) and control_delay(v1) <= control_delay(v2).
C5_MonotoneInVolume ==
    ( /\ BothReturned
      /\ req = [ prev.req EXCEPT !.volume = req.volume ]
      /\ prev.req.volume <= req.volume )
    => /\ prev.res.vc_ratio <= res.vc_ratio
       /\ prev.res.control_delay <= res.control_delay

\* a pair of results on the two sides of X = 1, the delay strictly larger
C5_Witness ==
    /\ BothReturned
    /\ req = [ prev.req EXCEPT !.volume = req.volume ]
    /\ prev.req.volume < req.volume
    /\ prev.res.vc_ratio < 10000 /\ res.vc_ratio > 10000
    /\ prev.res.control_delay < res.control_delay

\* C6: two accepted inputs that differ in effective_green only,
\* g1 <= g2 <= cycle_length: the results have capacity(g1) <= capacity(g2),
\* vc_ratio(g2) <= vc_ratio(g1) and control_delay(g2) <= control_delay(g1),
\* also where the floor of the uniform-delay denominator is active.
C6_MonotoneInGreen ==
    ( /\ BothReturned
      /\ req = [ prev.req EXCEPT !.effective_green = req.effective_green ]
      /\ prev.req.effective_green <= req.effective_green )
    => /\ prev.res.capacity <= res.capacity
       /\ res.vc_ratio <= prev.res.vc_ratio
       /\ res.control_delay <= prev.res.control_delay

\* the denominator of d1 is at its floor for the given input and ratio
FloorActive(r, vc_ratio) ==
    10000 * r.cycle_length - Min(10000, vc_ratio) * r.effective_green
        <= DenominatorFloor * r.cycle_length

\* a pair of results with the floor active in both, the green strictly longer
C6_Witness ==
    /\ BothReturned
    /\ req = [ prev.req EXCEPT !.effective_green = req.effective_green ]
    /\ prev.req.effective_green < req.effective_green
    /\ FloorActive(prev.req, prev.res.vc_ratio)
    /\ FloorActive(req, res.vc_ratio)
    /\ res.control_delay < prev.res.control_delay

C12_ControlDelayIsSum ==
    pc = "done" =>
        res.control_delay = RoundDiv(res.uniform_delay + res.incremental_delay, 1)

\* a result in which both components are positive
C12_Witness ==
    /\ pc = "done"
    /\ res.uniform_delay > 0
    /\ res.incremental_delay > 0
    /\ res.control_delay > res.uniform_delay

\* C15: when effective_green equals cycle_length, the capacity of a returned
\* LaneGroupResult equals saturation_flow.total_saturation_flow of the same
\* result; and compute_capacity(s, C, C) is s (to 1 decimal) for every
\* s >= 0 and C > 0.
C15_FullGreenCapacity ==
    /\ ( pc = "done" /\ req.effective_green = req.cycle_length )
           => res.capacity = res.saturation_flow.total_saturation_flow
    /\ \A s \in UnitFlows, c \in UnitCycles :
           ( s >= 0 /\ c > 0 ) => compute_capacity(s, c, c) = Ok(s)

\* a result of a lane group whose green fills the cycle
C15_Witness ==
    /\ pc = "done"
    /\ req.effective_green = req.cycle_length
    /\ res.capacity > 0

\* C16: for every valid input with volume = 0, compute_lane_group_results
\* returns a result with vc_ratio = 0.0, is_oversaturated = false,
\* incremental_delay = 0 and control_delay > 0.
C16_ZeroVolume ==
    ( pc \in { "done", "failed" } /\ req.volume = 0 )
        => /\ pc = "done"
           /\ res.vc_ratio = 0
           /\ ~res.is_oversaturated
           /\ res.incremental_delay = 0
           /\ res.control_delay > 0

\* C21: every returned LaneGroupResult carries the engine version of the
\* package and echoes the volume and the number of lanes of its input.
C21_VersionAndEcho ==
    pc = "done" =>
        /\ res.engine_version = EngineVersion
        /\ res.volume = req.volume
        /\ res.num_lanes = req.num_lanes

\* an oversaturated result of a group of several lanes
C21_Witness ==
    /\ pc = "done"
    /\ req.num_lanes > 1
    /\ req.volume > 0
    /\ res.is_oversaturated

-----------------------------------------------------------------------------
(* Properties of scenario_engine                                             *)

RECURSIVE FailsFrom(_, _, _)
\* some change of the changeset fails validation (when validation is asked
\* for) or application, each change being met in the state left by those
\* before it
FailsFrom(current, changes, validate) ==
    IF changes = <<>> THEN FALSE
    ELSE LET Bad(errors, out) ==
                 \/ validate /\ (~errors.ok \/ errors.errors # <<>>)
                 \/ ~out.ok
                 \/ FailsFrom(out.obj, Tail(changes), validate)
         IN  Bad(validate_change(current, Head(changes), 0),
                 apply_operation(current, Head(changes)))

\* the object passed in is as it was when passed
CallerObjectUnchanged == spc # "off" => sobj = sorig

\* a returned ChangeResult hands an object back only with success
NoObjectWithoutSuccess ==
    spc = "returned" =>
        /\ (sres.modified_object # JNull) => sres.success
        /\ FailsFrom(sorig, scs, sval) => ~sres.success

\* C8 as stated: after any call the object passed in is unchanged, and
\* whenever a change of the changeset fails validation or application the
\* call returns a ChangeResult with success = False and modified_object = None.
C8_AtomicApply ==
    /\ CallerObjectUnchanged
    /\ (spc \in {"returned", "raised"} /\ FailsFrom(sorig, scs, sval))
          => /\ spc = "returned"
             /\ ~sres.success
             /\ sres.modified_object = JNull

\* C9 as stated: apply_changes(original, changes = compute_diff(original,
\* modified)) succeeds and its modified_object equals modified.
C9_DiffRoundTrip ==
    (sdiff # NoCall /\ spc \in {"returned", "raised"})
        => /\ spc = "returned"
           /\ sres.success
           /\ sres.modified_object = sdiff.modified

RECURSIVE FoldChanges(_, _)
\* the left fold of apply_operation over the changes, from obj
FoldChanges(obj, changes) ==
    IF changes = <<>> THEN obj
    ELSE FoldChanges(apply_operation(obj, Head(changes)).obj, Tail(changes))

\* C10: a successful apply_changes returns the left fold of apply_operation
\* over the changes in their list order, starting from the object passed in,
\* and changes_applied is the number of changes.
C10_AppliedInListOrder ==
    (spc = "returned" /\ sres.success)
        => /\ sres.modified_object = FoldChanges(sorig, scs)
           /\ sres.changes_applied = Len(scs)
           /\ Len(sres.applied_changes) = Len(scs)
           /\ \A i \in 1..Len(scs) :
                 /\ sres.applied_changes[i].op = scs[i].op
                 /\ sres.applied_changes[i].path = scs[i].path

\* "+100" then "*2" has succeeded on a volume of 800, and the two changes in
\* the other order give another object
C10_Witness ==
    /\ spc = "returned"
    /\ sres.success
    /\ sorig = Intersection
    /\ Len(scs) = 2
    /\ scs[1].value = JStr("+100")
    /\ scs[2].value = JStr("*2")
    /\ sres.modified_object[2]["volume"] = JInt(1800)
    /\ FoldChanges(sorig, <<scs[2], scs[1]>>)[2]["volume"] = JInt(1700)

\* the value at the location a change targets in the object it meets: the
\* num_lanes of the lane group for the lane operations, else the value at the
\* path, None where there is none
C24_TargetValue(obj, change) ==
    LET At(found) ==
            IF ~found.ok THEN JNull
            ELSE IF change.op \in { "add_lane", "remove_lane", "modify_lanes" }
                 THEN NumLanesOf(found.v)
            ELSE found.v
    IN  At(get_value_at_path(obj, change.path))

\* C24: in a successful apply_changes result, applied_changes has one entry
\* per change of the changeset, in order, with the same op, path and value,
\* and the previous_value of an entry is the value that was at the targeted
\* location in the state the preceding changes produced.
C24_AppliedChangesAudit ==
    ( spc = "returned" /\ sres.success ) =>
        /\ Len(sres.applied_changes) = Len(scs)
        /\ \A i \in 1..Len(scs) :
              /\ sres.applied_changes[i].op = scs[i].op
              /\ sres.applied_changes[i].path = scs[i].path
              /\ sres.applied_changes[i].value = scs[i].value
              /\ sres.applied_changes[i].previous_value
                    = C24_TargetValue(FoldChanges(sorig, SubSeq(scs, 1, i - 1)), scs[i])

\* the changes applied so far, and the object the last of them met
AppliedSoFar == IF spc = "applying" THEN sloc.applied ELSE <<>>
LastApplied  == AppliedSoFar[Len(AppliedSoFar)]
BeforeLast   == FoldChanges(sorig, SubSeq(scs, 1, Len(AppliedSoFar) - 1))

\* the num_lanes of the lane group at the path (1 when the group has none)
LanesAt(obj, path) == NumLanesOf(get_value_at_path(obj, path).v)[2]

\* C25: add_lane and remove_lane on a lane group of num_lanes >= 1 leave it
\* with num_lanes >= 1: add_lane adds exactly 1, remove_lane takes exactly 1
\* off, but leaves a group of one lane at 1.  Every pass of the loop of
\* apply_changes that applied such a change is checked, so every sequence.
C25_LaneFloor ==
    ( /\ AppliedSoFar # <<>>
      /\ LastApplied.op \in { "add_lane", "remove_lane" }
      /\ LanesAt(BeforeLast, LastApplied.path) >= 1 )
    => /\ LanesAt(Current, LastApplied.path) >= 1
       /\ LastApplied.op = "add_lane"
             => LanesAt(Current, LastApplied.path)
                   = LanesAt(BeforeLast, LastApplied.path) + 1
       /\ LastApplied.op = "remove_lane"
             => LanesAt(Current, LastApplied.path)
                   = IF LanesAt(BeforeLast, LastApplied.path) = 1 THEN 1
                     ELSE LanesAt(BeforeLast, LastApplied.path) - 1

\* remove_lane twice on the group of two lanes: 2, then 1, then still 1
C25_Witness ==
    /\ Len(AppliedSoFar) = 2
    /\ sloc.applied[1].op = "remove_lane"
    /\ sloc.applied[1].previous_value = JInt(2)
    /\ sloc.applied[2].op = "remove_lane"
    /\ sloc.applied[2].previous_value = JInt(1)
    /\ LanesAt(Current, sloc.applied[2].path) = 1

\* the new volume C26 gives for the previous volume and the value of the
\* change: the number itself, or previous + d, previous - d, previous * m
C26_New(previous, value) ==
    IF value[1] = "int" THEN value[2]
    ELSE IF value = JStr("+100") THEN previous + 100
    ELSE IF value = JStr("-50") THEN previous - 50
    ELSE previous * 2

\* C26: modify_volume on a path naming an existing numeric volume sets it to
\* max(0, new), new being the given number, previous + d for "+d",
\* previous - d for "-d", previous * m for "*m"; the volume is never
\* negative afterwards and the previous value returned is the volume before.
\* Every pass of the loop of apply_changes that applied such a change is
\* checked, so every sequence.
C26_ModifyVolume ==
    ( /\ AppliedSoFar # <<>>
      /\ LastApplied.op = "modify_volume"
      /\ LastApplied.value \in { JInt(1200), JStr("+100"), JStr("-50"), JStr("*2") }
      /\ get_value_at_path(BeforeLast, LastApplied.path).ok
      /\ get_value_at_path(BeforeLast, LastApplied.path).v[1] = "int" )
    => LET before == get_value_at_path(BeforeLast, LastApplied.path).v[2]
           after  == get_value_at_path(Current, LastApplied.path).v
       IN  /\ LastApplied.previous_value = JInt(before)
           /\ after[1] = "int"
           /\ after[2] >= 0
           /\ after[2] = IF C26_New(before, LastApplied.value) >= 0
                         THEN C26_New(before, LastApplied.value) ELSE 0
           /\ Current = Put(BeforeLast, parse_path(LastApplied.path), after)

\* "-50" applied to a volume of 0, which stays 0
C26_Witness ==
    /\ AppliedSoFar # <<>>
    /\ LastApplied.op = "modify_volume"
    /\ LastApplied.value = JStr("-50")
    /\ LastApplied.previous_value = JInt(0)
    /\ get_value_at_path(Current, LastApplied.path) = Ok(JInt(0))

\* C27: validate_changes never raises: for every object and changeset it
\* returns a list of ValidationError, so apply_changes with validate = True
\* always returns a ChangeResult and propagates no exception.
C27_ValidationNeverRaises ==
    ( spc # "off" /\ sval )
        => /\ validate_changes(sorig, scs).ok
           /\ spc # "raised"

\* the lane groups of an object: the object itself when it has num_lanes, and
\* the dicts of its lane_groups list
LaneGroupsOf(obj) ==
    (IF obj[1] = "dict" /\ "num_lanes" \in DOMAIN obj[2] THEN { obj } ELSE {})
    \cup (IF obj[1] = "dict" /\ "lane_groups" \in DOMAIN obj[2]
             /\ obj[2]["lane_groups"][1] = "list"
          THEN { obj[2]["lane_groups"][2][i] : i \in 1..Len(obj[2]["lane_groups"][2]) }
          ELSE {})

LanesInRange(obj) ==
    \A lane_group \in LaneGroupsOf(obj) :
        /\ lane_group[1] = "dict"
        /\ NumLanesOf(lane_group)[1] = "int"
        /\ NumLanesOf(lane_group)[2] >= 1
        /\ NumLanesOf(lane_group)[2] <= 8

\* C28: when every lane group of the base object has num_lanes in 1..8, the
\* modified_object of a changeset that apply_changes accepts with
\* validate = True has every lane group with num_lanes in 1..8.
C28_LanesStayInRange ==
    ( spc = "returned" /\ sval /\ sres.success /\ LanesInRange(sorig) )
        => LanesInRange(sres.modified_object)

\* C29: with validate = True, whenever validate_changes returns no errors
\* the application of all the changes succeeds, so every failed ChangeResult
\* returned has changes_applied = 0 and no applied changes.
C29_ValidationCatchesAll ==
    ( spc = "returned" /\ sval )
        => /\ validate_changes(sorig, scs) = [ok |-> TRUE, errors |-> <<>>]
                 => sres.success
           /\ ~sres.success
                 => /\ sres.changes_applied = 0
                    /\ sres.applied_changes = <<>>
                    /\ sres.errors # <<>>

\* a changeset that no check of validate_change rejects and whose
\* application fails: the simulation of validate_changes reports it
C29_Witness ==
    /\ spc = "returned"
    /\ sval
    /\ ~sres.success
    /\ sres.changes_applied = 0
    /\ \E i \in 1..Len(sres.errors) : sres.errors[i].message = "Simulation failed"

\* C30: a modify_volume whose path points to an object (a dict) modifies
\* that object's "volume" key and leaves its other keys and the rest of the
\* tree unchanged.  Every pass of the loop of apply_changes that applied a
\* modify_volume to a path resolving to a dict is checked: afterwards the
\* path still resolves to a dict, which has a "volume" key and differs from
\* the dict before in that key at most.
C30_PointsToObject(obj, change) ==
    /\ change.op = "modify_volume"
    /\ get_value_at_path(obj, change.path).ok
    /\ get_value_at_path(obj, change.path).v[1] = "dict"

C30_ModifyVolumeOnObject ==
    ( /\ AppliedSoFar # <<>>
      /\ C30_PointsToObject(BeforeLast, LastApplied) )
    => LET target == get_value_at_path(BeforeLast, LastApplied.path).v
           after  == get_value_at_path(Current, LastApplied.path)
       IN  /\ after.ok
           /\ after.v[1] = "dict"
           /\ "volume" \in DOMAIN after.v[2]
           /\ after.v[2]["volume"][1] = "int"
           /\ Current = Put(BeforeLast, parse_path(LastApplied.path),
                            JDict(("volume" :> after.v[2]["volume"]) @@ target[2]))

-----------------------------------------------------------------------------
(* Properties of the single functions of hcm_engine                          *)

\* a call of the named function has been made
Called(fn) == ucall # NoCall /\ ucall.fn = fn

\* C11: for arguments with 0 <= effective_green <= cycle_length, vc_ratio >= 0
\* and upstream_filtering_factor >= 0 on which compute_control_delay returns,
\* the uniform delay, the incremental delay and the total are all >= 0, so
\* classify_los on the total, as compute_lane_group_results calls it, does
\* not raise its negative-delay error.
C11_DelaysNonNegative ==
    ( /\ Called("compute_control_delay")
      /\ uret.ok
      /\ 0 <= ucall.effective_green
      /\ ucall.effective_green <= ucall.cycle_length
      /\ ucall.vc_ratio >= 0
      /\ ucall.upstream_filtering_factor >= 0 )
    => /\ uret.v[1] >= 0
       /\ uret.v[2] >= 0
       /\ uret.v[3] >= 0
       /\ classify_los(uret.v[3]).ok

\* a call with X < 1 and no upstream arrivals filtered in (I = 0), where the
\* incremental delay is at its floor 0, and one with a full green and X > 1
C11_Witness ==
    /\ Called("compute_control_delay")
    /\ uret.ok
    /\ \/ ucall.vc_ratio < 10000 /\ ucall.upstream_filtering_factor = 0 /\ uret.v[2] = 0
       \/ ucall.effective_green = ucall.cycle_length /\ ucall.vc_ratio > 10000
             /\ uret.v[1] = 0 /\ uret.v[2] > 0

\* C13: compute_uniform_delay(g, C, X) with X >= 1 returns exactly what
\* compute_uniform_delay(g, C, 1) returns: d1 does not grow past X = 1.
C13_UniformDelaySaturates ==
    (Called("compute_uniform_delay") /\ ucall.vc_ratio >= 10000)
        => uret = compute_uniform_delay(ucall.effective_green, ucall.cycle_length, 10000)

\* a call with X > 1 and a green inside the cycle that returned a delay
C13_Witness ==
    /\ Called("compute_uniform_delay")
    /\ ucall.vc_ratio > 10000
    /\ 0 < ucall.effective_green
    /\ ucall.effective_green < ucall.cycle_length
    /\ uret.ok
    /\ uret.v > 0

\* 10000 * C * (1 - min(1, X) * g / C), the denominator on the model's scale
C14_Denominator ==
    10000 * ucall.cycle_length - Min(10000, ucall.vc_ratio) * ucall.effective_green

\* C14: the divisor of compute_uniform_delay is never below 0.001: when
\* 1 - min(1, X)*g/C <= 0.001 the result is round(0.5*C*(1 - g/C)^2 / 0.001, 2),
\* otherwise round(0.5*C*(1 - g/C)^2 / (1 - min(1, X)*g/C), 2); so X >= 1
\* with g = C returns 0 and no call divides by zero.
C14_DivisorFloor ==
    (Called("compute_uniform_delay") /\ ucall.cycle_length > 0)
        => /\ uret.ok
           /\ uret.v = UniformDelayQuotient(
                  (ucall.cycle_length - ucall.effective_green)
                      * (ucall.cycle_length - ucall.effective_green),
                  IF C14_Denominator <= 10 * ucall.cycle_length
                  THEN 10 * ucall.cycle_length
                  ELSE C14_Denominator)
           /\ ( ucall.vc_ratio >= 10000 /\ ucall.effective_green = ucall.cycle_length )
                  => uret.v = 0

\* a call whose denominator is below the floor and whose delay is not zero
C14_Witness ==
    /\ Called("compute_uniform_delay")
    /\ 0 < C14_Denominator
    /\ C14_Denominator < 10 * ucall.cycle_length
    /\ uret.ok
    /\ uret.v > 0


\* C17: compute_capacity fails exactly when cycle_length <= 0,
\* effective_green < 0, effective_green > cycle_length or saturation_flow < 0,
\* the error being that of the first of these, in this order, that is
\* violated; every other call, saturation_flow = 0 and effective_green = 0
\* included, returns saturation_flow * effective_green / cycle_length
\* rounded to 1 decimal.
C17_CapacityDomain ==
    Called("compute_capacity") =>
        /\ ~uret.ok <=> \/ ucall.cycle_length <= 0
                        \/ ucall.effective_green < 0
                        \/ ucall.effective_green > ucall.cycle_length
                        \/ ucall.saturation_flow < 0
        /\ ucall.cycle_length <= 0 => uret = Raise("cycle_length must be positive")
        /\ ( ucall.cycle_length > 0 /\ ucall.effective_green < 0 )
               => uret = Raise("effective_green cannot be negative")
        /\ ( ucall.cycle_length > 0 /\ ucall.effective_green > ucall.cycle_length )
               => uret = Raise("effective_green cannot exceed cycle_length")
        /\ ( /\ ucall.cycle_length > 0
             /\ 0 <= ucall.effective_green
             /\ ucall.effective_green <= ucall.cycle_length
             /\ ucall.saturation_flow < 0 )
               => uret = Raise("saturation_flow cannot be negative")
        /\ uret.ok => uret.v = RoundDiv(ucall.saturation_flow * ucall.effective_green,
                                        ucall.cycle_length)

\* a call that violates the first and the last precondition and fails on the first
C17_Witness ==
    /\ Called("compute_capacity")
    /\ ucall.cycle_length <= 0
    /\ ucall.saturation_flow < 0
    /\ uret = Raise("cycle_length must be positive")

\* C18: compute_vc_ratio fails exactly when capacity <= 0 or volume < 0, on
\* the capacity first; every other call returns volume / capacity rounded to
\* 4 decimals, above 1.0 too: the ratio is neither clamped nor an error.
C18_VcRatioDomain ==
    Called("compute_vc_ratio") =>
        /\ ~uret.ok <=> ( ucall.capacity <= 0 \/ ucall.volume < 0 )
        /\ ucall.capacity <= 0 => uret = Raise("capacity must be positive")
        /\ ( ucall.capacity > 0 /\ ucall.volume < 0 )
               => uret = Raise("volume cannot be negative")
        /\ uret.ok => uret.v = RoundDiv(ucall.volume * 100000, ucall.capacity)
        /\ ( uret.ok /\ 10 * ucall.volume >= 2 * ucall.capacity ) => uret.v >= 20000

\* a call that returned a ratio above 1.0
C18_Witness ==
    /\ Called("compute_vc_ratio")
    /\ uret.ok
    /\ uret.v > 10000


\* C19: compute_control_delay fails, returning no tuple, whenever
\* cycle_length <= 0, capacity <= 0 or analysis_period_hours <= 0:
\* compute_uniform_delay raises on the cycle length, and with a positive
\* cycle compute_incremental_delay raises on the capacity, then on the
\* analysis period.
C19_ControlDelayDomain ==
    Called("compute_control_delay") =>
        /\ ( \/ ucall.cycle_length <= 0
             \/ ucall.capacity <= 0
             \/ ucall.analysis_period_hours <= 0 ) => ~uret.ok
        /\ ucall.cycle_length <= 0
               => uret = compute_uniform_delay(ucall.effective_green,
                                               ucall.cycle_length, ucall.vc_ratio)
        /\ ucall.cycle_length <= 0 => uret = Raise("cycle_length must be positive")
        /\ ( ucall.cycle_length > 0 /\ ucall.capacity <= 0 )
               => uret = Raise("capacity must be positive")
        /\ ( /\ ucall.cycle_length > 0
             /\ ucall.capacity > 0
             /\ ucall.analysis_period_hours <= 0 )
               => uret = Raise("analysis_period_hours must be positive")

\* a call with a valid timing and capacity that failed on the analysis period
C19_Witness ==
    /\ Called("compute_control_delay")
    /\ ucall.cycle_length > 0
    /\ ucall.capacity > 0
    /\ ucall.analysis_period_hours <= 0
    /\ ~uret.ok


\* the argument a ValueError message of the pipeline functions is about
C20_OffendingArgument(e) ==
    CASE e = "cycle_length must be positive"              -> "cycle_length"
      [] e = "effective_green cannot be negative"         -> "effective_green"
      [] e = "effective_green cannot exceed cycle_length" -> "effective_green"
      [] e = "saturation_flow cannot be negative"         -> "saturation_flow"
      [] e = "capacity must be positive"                  -> "capacity"
      [] e = "volume cannot be negative"                  -> "volume"
      [] e = "analysis_period_hours must be positive"     -> "analysis_period_hours"
      [] e = "control_delay cannot be negative"           -> "control_delay"

\* C20: the error of a failed call of a pipeline function identifies the
\* precondition that failed and the offending value: a call of the same
\* function that fails with the same error has the same value in the
\* argument the error is about.
C20_ErrorCarriesOffendingValue ==
    ( ucall # NoCall /\ ~uret.ok ) =>
        LET Same(other) == other[C20_OffendingArgument(uret.e)]
                               = ucall[C20_OffendingArgument(uret.e)]
        IN  CASE ucall.fn = "compute_capacity" ->
                   \A s \in UnitFlows, g \in UnitGreens, c \in UnitCycles :
                       compute_capacity(s, g, c) = uret
                           => Same([ saturation_flow |-> s, effective_green |-> g,
                                     cycle_length |-> c ])
              [] ucall.fn = "compute_vc_ratio" ->
                   \A v \in UnitVolumes, c \in UnitCapacities :
                       compute_vc_ratio(v, c) = uret
                           => Same([ volume |-> v, capacity |-> c ])
              [] ucall.fn = "compute_uniform_delay" ->
                   \A c \in UnitCycles :
                       compute_uniform_delay(ucall.effective_green, c, ucall.vc_ratio) = uret
                           => Same([ cycle_length |-> c ])
              [] ucall.fn = "compute_control_delay" ->
                   \A cap \in UnitCapacities, T \in UnitPeriods :
                       compute_incremental_delay(ucall.vc_ratio, cap, T, ucall.control_type,
                                                 ucall.upstream_filtering_factor) = uret
                           => Same([ capacity |-> cap, analysis_period_hours |-> T,
                                     cycle_length |-> ucall.cycle_length ])
              [] ucall.fn = "classify_los" ->
                   \A d \in Delays :
                       classify_los(d) = uret => Same([ control_delay |-> d ])


\* C22: for every left_turn_pct in 0..100, compute_left_turn_factor gives
\* exactly 0.95 for movement 'left' whatever the percentage,
\* 1/(1 + 0.05 * left_turn_pct/100) for 'through_left' and 'all', and 1.0 for
\* through, right, through_right and left_right.
C22_LeftTurnFactor ==
    Called("compute_left_turn_factor") =>
        /\ uret.ok
        /\ uret.v[2] > 0
        /\ ucall.movement_type = "left" => 100 * uret.v[1] = 95 * uret.v[2]
        /\ ucall.movement_type \in { "through_left", "all" }
               \* f * (1 + 0.05 * pct/100) = 1, times 2000
               => uret.v[1] * (2000 + ucall.left_turn_pct) = 2000 * uret.v[2]
        /\ ucall.movement_type \in { "through", "right", "through_right", "left_right" }
               => uret.v[1] = uret.v[2]

\* the exclusive left-turn lane with every vehicle turning left
C22_Witness ==
    /\ Called("compute_left_turn_factor")
    /\ ucall.movement_type = "left"
    /\ ucall.left_turn_pct = 100
    /\ uret = Ok(<<95, 100>>)


\* the body of the request is malformed or out of range for the engine input
C23_BadBody ==
    \/ ucall.body \in MalformedBodies
    \/ LaneGroupInputErrors(ucall.body) # {}

\* C23: at both POST /compute/signalized and POST /hcm/compute-los, a request
\* whose body is malformed or out of range for the engine input is answered
\* with status 422, and compute_lane_group_results is not invoked for it.
C23_BadBodyAnswered422 ==
    ( Called("POST") /\ C23_BadBody )
        => /\ uret.status = 422
           /\ uret.engine_calls = 0

=============================================================================
